---- MODULE Spec2Model ----
(***************************************************************************)
(* Model of the collection store of mtg-ff-collection                      *)
(* (src/src/app/services/collection.service.ts) and of the import handler  *)
(* of the application component that calls it.                             *)
(*                                                                         *)
(* JavaScript values are modelled as records [k, s, n, d]:                 *)
(*   k  the kind: "undefined", "null", "boolean", "number", "NaN",         *)
(*      "Infinity", "string" or "object" (a plain object {});              *)
(*   s  the text of a string (otherwise "");                               *)
(*   n, d  the finite number n/d (d is 1 or 2), or the boolean n = 1.      *)
(* The text kept in localStorage is modelled by the JSON value it denotes. *)
(* The text of a card name, collector number or search term is a sequence  *)
(* of one-character strings.                                               *)
(***************************************************************************)
EXTENDS Integers, Sequences, FiniteSets

VARIABLES cache, storage, importErrorKey, importsPending, writeFailures, call,
          cards, searchTerm, filterRarity, filterOwnership, sortBy,
          loading, errorKey,
          args, result,
          provider, requested, pending, emitted, loads,
          setType, setTypeStorage,
          currentLanguage, translations, langStorage, langRequests

\* the store, the import error of the component, the imports whose file is
\* being read, and the storage writes that threw
storeVars == <<cache, storage, importErrorKey, importsPending, writeFailures,
               call>>
\* the card list and the filter and sort fields of the component
viewVars == <<cards, searchTerm, filterRarity, filterOwnership, sortBy,
              loading, errorKey>>
\* a call of a function on its own: its arguments and the value it returned
callVars == <<args, result>>
\* the catalog requests, each a sequence with one entry per call of loadCards:
\* the provider's pages, the page requests issued so far, the request in
\* flight and what the fetch delivered; the calls of loadCards; the
\* component's set type and the set type kept in localStorage
netVars == <<provider, requested, pending, emitted, loads, setType,
             setTypeStorage>>
\* the translation service: the current language, the dictionary in use, the
\* stored language preference, and the dictionary requests made so far
langVars == <<currentLanguage, translations, langStorage, langRequests>>

vars == <<cache, storage, importErrorKey, importsPending, writeFailures, call,
          cards, searchTerm, filterRarity, filterOwnership, sortBy,
          loading, errorKey,
          args, result,
          provider, requested, pending, emitted, loads,
          setType, setTypeStorage,
          currentLanguage, translations, langStorage, langRequests>>

(***************************************************************************)
(* Bounds                                                                  *)
(***************************************************************************)
MaxQty == 1        \* most copies of a card given to setCardQuantities
MaxLen == 2        \* longest array given to replaceAll

(***************************************************************************)
(* JavaScript values and the conversions the code applies to them          *)
(***************************************************************************)
V(k, s, n, d) == [k |-> k, s |-> s, n |-> n, d |-> d]

Undefined == V("undefined", "", 0, 1)
JsNull    == V("null", "", 0, 1)
Bool(b)   == V("boolean", "", IF b THEN 1 ELSE 0, 1)
Num(i)    == V("number", "", i, 1)
Half(i)   == V("number", "", i, 2)      \* the fraction i/2, i odd
NaN       == V("NaN", "", 0, 1)
Infinity  == V("Infinity", "", 0, 1)
Str(s)    == V("string", s, 0, 1)
Obj       == V("object", "", 0, 1)

\* absent (null / undefined result) and present results of a lookup
Null == <<>>
Some(x) == <<x>>

\* typeof v
TypeOf(v) ==
  CASE v.k \in {"NaN", "Infinity"} -> "number"
    [] v.k = "null" -> "object"
    [] OTHER -> v.k

\* truthiness of v, as used by !v, !!v and v || w
ToBoolean(v) ==
  CASE v.k \in {"undefined", "null", "NaN"} -> FALSE
    [] v.k = "boolean" -> v.n = 1
    [] v.k = "number" -> v.n # 0
    [] v.k = "string" -> v.s # ""
    [] OTHER -> TRUE

\* the number a string converts to
StringToNumber(s) ==
  CASE s = "" -> Num(0)
    [] s = "2" -> Num(2)
    [] OTHER -> NaN

\* Number(v)
ToNumber(v) ==
  CASE v.k = "undefined" -> NaN
    [] v.k = "null" -> Num(0)
    [] v.k = "boolean" -> Num(v.n)
    [] v.k = "string" -> StringToNumber(v.s)
    [] v.k = "object" -> NaN
    [] OTHER -> v

\* v || 0
OrZero(v) == IF ToBoolean(v) THEN v ELSE Num(0)

\* the conversion to a number without the lower limit of 0
MathMax0_NoClamp(v) == ToNumber(v)

\* Math.max(0, v)
MathMax0(v) ==
  LET x == ToNumber(v)
  IN  CASE x.k = "NaN" -> NaN
        [] x.k = "Infinity" -> Infinity
        [] OTHER -> IF x.n < 0 THEN Num(0) ELSE x

\* v === 0
IsZero(v) == v.k = "number" /\ v.n = 0

\* a value that is a non-negative integer
IsNonNegInteger(v) == v.k = "number" /\ v.d = 1 /\ v.n >= 0

(***************************************************************************)
(* JSON.stringify / JSON.parse of the ledger                               *)
(***************************************************************************)
\* JSON.stringify of one property value: a non-finite number is written as
\* null; every other value is written as itself
StringifyValue(v) == IF v.k \in {"NaN", "Infinity"} THEN JsNull ELSE v

StringifyRecord(r) ==
  [cardId    |-> StringifyValue(r.cardId),
   normalQty |-> StringifyValue(r.normalQty),
   foilQty   |-> StringifyValue(r.foilQty),
   wanted    |-> StringifyValue(r.wanted)]

JSONstringify(data) == [i \in 1..Len(data) |-> StringifyRecord(data[i])]

\* JSON.parse of a stored text: the value the text denotes
JSONparse(text) == [i \in 1..Len(text) |-> text[i]]

(***************************************************************************)
(* CollectionService: a store state is [cache, storage]; cache is Null or  *)
(* Some(array of records), storage is Null (no item) or Some(stored text). *)
(* Each mutating method yields the store state it leaves and the point at  *)
(* which it returned ("outcome").                                          *)
(***************************************************************************)
Store(c, s) == [cache |-> c, storage |-> s]

\* loadFromStorage: the array it returns
loadFromStorage(st) ==
  IF st.cache # Null THEN st.cache[1]
  ELSE IF st.storage # Null THEN JSONparse(st.storage[1])
  ELSE <<>>

\* loadFromStorage: the store state it leaves (this.cache assigned)
afterLoad(st) == Store(Some(loadFromStorage(st)), st.storage)

\* saveToStorage(data)
saveToStorage(st, data) == Store(Some(data), Some(JSONstringify(data)))

\* getAll()
getAll(st) == loadFromStorage(st)

\* collection.find((c) => c.cardId === cardId), as an index (0: not found)
FindIndex(collection, cardId) ==
  IF \E i \in 1..Len(collection) : collection[i].cardId = cardId
  THEN CHOOSE i \in 1..Len(collection) :
         /\ collection[i].cardId = cardId
         /\ \A j \in 1..(i - 1) : collection[j].cardId # cardId
  ELSE 0

\* getCard(cardId): Null when absent
getCard(st, cardId) ==
  LET collection == loadFromStorage(st)
      i == FindIndex(collection, cardId)
  IN  IF i = 0 THEN Null ELSE Some(collection[i])

\* a splice that removes everything from idx on
Splice1_ToTheEnd(collection, idx) == SubSeq(collection, 1, idx - 1)

\* collection.splice(idx, 1)
Splice1(collection, idx) ==
  [i \in 1..(Len(collection) - 1) |->
     IF i < idx THEN collection[i] ELSE collection[i + 1]]

Result(st, outcome) ==
  [cache |-> st.cache, storage |-> st.storage, outcome |-> outcome]

\* setCardQuantities that keeps a record left without copies
setCardQuantities_NoPrune(st, cardId, normalQty, foilQty) ==
  LET collection == loadFromStorage(st)
      loaded == afterLoad(st)
      idx == FindIndex(collection, cardId)
      n == MathMax0(OrZero(normalQty))
      f == MathMax0(OrZero(foilQty))
  IN  IF idx # 0
      THEN Result(saveToStorage(loaded,
                    [collection EXCEPT ![idx].normalQty = n, ![idx].foilQty = f]),
                  "updated")
      ELSE IF IsZero(n) /\ IsZero(f)
           THEN Result(loaded, "noop")
           ELSE Result(saveToStorage(loaded,
                         Append(collection,
                                [cardId |-> cardId, normalQty |-> n,
                                 foilQty |-> f, wanted |-> Bool(FALSE)])),
                       "created")

\* setCardQuantities(cardId, normalQty, foilQty)
setCardQuantities(st, cardId, normalQty, foilQty) ==
  LET collection == loadFromStorage(st)
      loaded == afterLoad(st)
      idx == FindIndex(collection, cardId)
      n == MathMax0(OrZero(normalQty))
      f == MathMax0(OrZero(foilQty))
  IN  IF idx # 0
      THEN LET updated == [collection EXCEPT ![idx].normalQty = n,
                                             ![idx].foilQty = f]
           IN  IF IsZero(n) /\ IsZero(f) /\ ~ToBoolean(collection[idx].wanted)
               THEN Result(saveToStorage(loaded, Splice1(updated, idx)), "removed")
               ELSE Result(saveToStorage(loaded, updated), "updated")
      ELSE IF IsZero(n) /\ IsZero(f)
           THEN Result(loaded, "noop")
           ELSE Result(saveToStorage(loaded,
                         Append(collection,
                                [cardId |-> cardId, normalQty |-> n,
                                 foilQty |-> f, wanted |-> Bool(FALSE)])),
                       "created")

\* toggleWanted that never removes a record
toggleWanted_NoPrune(st, cardId) ==
  LET collection == loadFromStorage(st)
      loaded == afterLoad(st)
      idx == FindIndex(collection, cardId)
  IN  IF idx = 0
      THEN Result(saveToStorage(loaded,
                    Append(collection,
                           [cardId |-> cardId, normalQty |-> Num(0),
                            foilQty |-> Num(0), wanted |-> Bool(TRUE)])),
                  "created")
      ELSE Result(saveToStorage(loaded,
                    [collection EXCEPT
                       ![idx].wanted = Bool(~ToBoolean(collection[idx].wanted))]),
                  "updated")

\* toggleWanted(cardId)
toggleWanted(st, cardId) ==
  LET collection == loadFromStorage(st)
      loaded == afterLoad(st)
      idx == FindIndex(collection, cardId)
  IN  IF idx = 0
      THEN Result(saveToStorage(loaded,
                    Append(collection,
                           [cardId |-> cardId, normalQty |-> Num(0),
                            foilQty |-> Num(0), wanted |-> Bool(TRUE)])),
                  "created")
      ELSE LET flipped == [collection EXCEPT
                             ![idx].wanted = Bool(~ToBoolean(collection[idx].wanted))]
           IN  IF /\ ~ToBoolean(flipped[idx].wanted)
                  /\ IsZero(flipped[idx].normalQty)
                  /\ IsZero(flipped[idx].foilQty)
               THEN Result(saveToStorage(loaded, Splice1(flipped, idx)), "removed")
               ELSE Result(saveToStorage(loaded, flipped), "updated")

(***************************************************************************)
(* replaceAll.  Its argument is [isArray, items]; an item is a JavaScript  *)
(* value [v, cardId, normalQty, foilQty, wanted]: v is Obj for an object,  *)
(* whose properties are the other fields (Undefined when missing), and the *)
(* value itself when the item is null or a primitive.                      *)
(***************************************************************************)
Item(v, cardId, normalQty, foilQty, wanted) ==
  [v |-> v, cardId |-> cardId, normalQty |-> normalQty,
   foilQty |-> foilQty, wanted |-> wanted]

ItemObj(cardId, normalQty, foilQty, wanted) ==
  Item(Obj, cardId, normalQty, foilQty, wanted)

\* an element that is null or a primitive value
ItemPrim(v) == Item(v, Undefined, Undefined, Undefined, Undefined)

\* a ledger record passed back as an element of an array
AsItem(r) == ItemObj(r.cardId, r.normalQty, r.foilQty, r.wanted)

ArrayOf(items) == [isArray |-> TRUE, items |-> items]
NotAnArray == [isArray |-> FALSE, items |-> <<>>]

\* !item || typeof item !== 'object'
ItemRejected(item) == ~ToBoolean(item.v) \/ TypeOf(item.v) # "object"

\* !item.cardId || typeof item.cardId !== 'string'
CardIdRejected(item) ==
  ~ToBoolean(item.cardId) \/ TypeOf(item.cardId) # "string"

\* the record pushed for an item that passes the two checks above
CleanedRecord(item) ==
  [cardId    |-> item.cardId,
   normalQty |-> MathMax0(OrZero(ToNumber(item.normalQty))),
   foilQty   |-> MathMax0(OrZero(ToNumber(item.foilQty))),
   wanted    |-> Bool(ToBoolean(item.wanted))]

\* normal === 0 && foil === 0 && !wanted
IsEmptyRecord(r) ==
  IsZero(r.normalQty) /\ IsZero(r.foilQty) /\ ~ToBoolean(r.wanted)

\* an item the loop of replaceAll pushes to cleaned
ItemKept(item) ==
  /\ ~ItemRejected(item)
  /\ ~CardIdRejected(item)
  /\ ~IsEmptyRecord(CleanedRecord(item))

\* the loop of replaceAll: the array cleaned
RECURSIVE Cleaned(_)
Cleaned(items) ==
  IF items = <<>> THEN <<>>
  ELSE LET rest == Cleaned(Tail(items))
       IN  IF ItemKept(Head(items))
           THEN <<CleanedRecord(Head(items))>> \o rest
           ELSE rest

\* replaceAll that empties the ledger before it checks its argument
replaceAll_ClearFirst(st, data) ==
  IF ~data.isArray
  THEN Result(saveToStorage(st, <<>>), "threw")
  ELSE Result(saveToStorage(st, Cleaned(data.items)), "replaced")

\* replaceAll(data)
replaceAll(st, data) ==
  IF ~data.isArray
  THEN Result(st, "threw")
  ELSE Result(saveToStorage(st, Cleaned(data.items)), "replaced")

(***************************************************************************)
(* Inputs                                                                  *)
(***************************************************************************)
\* card ids given to setCardQuantities and toggleWanted (cardId: string); the
\* empty string is one of them
CardIds == {Str("a"), Str("")}

\* pairs of whole quantities: at most MaxQty copies of a card in all
WholePairs ==
  {p \in {<<Num(i), Num(j)>> : i \in 0..MaxQty, j \in 0..MaxQty} :
     p[1].n + p[2].n <= MaxQty}

\* other values given as a quantity
OddQtys == {Num(-1), Half(1), NaN, Infinity, Str("abc"), Undefined}

\* the calls setCardQuantities(cardId, normalQty, foilQty)
SetInputs ==
  {<<id, q[1], q[2]>> : id \in CardIds, q \in WholePairs}
    \cup {<<Str("a"), x, Num(0)>> : x \in OddQtys}
    \cup {<<Str("a"), Num(0), x>> : x \in OddQtys}

\* elements of the arrays given to replaceAll: entries that name a card and
\* hold copies of it or the wanted flag
WellFormedItems ==
  { ItemObj(Str("a"), Str("2"), Num(-1), Num(0)),
    ItemObj(Str("a"), Half(1), Num(0), Num(1)) }

\* entries without copies and not wanted, without a usable cardId, or that are
\* not objects
MalformedItems ==
  { ItemObj(Str("a"), JsNull, Str("abc"), Undefined),
    ItemObj(Str(""), Num(1), Num(0), Bool(FALSE)),
    ItemObj(Num(7), Num(1), Num(0), Bool(TRUE)),
    ItemPrim(Num(5)),
    ItemPrim(JsNull) }

\* arrays of at most len elements
RECURSIVE SeqsUpTo(_, _)
SeqsUpTo(S, len) ==
  IF len = 0 THEN {<<>>}
  ELSE LET shorter == SeqsUpTo(S, len - 1)
       IN  shorter \cup {Append(q, x) : q \in shorter, x \in S}

\* arrays of at most MaxLen elements, with at most one malformed entry (first)
ImportArrays ==
  SeqsUpTo(WellFormedItems, MaxLen)
    \cup {<<x>> \o q : x \in MalformedItems,
                       q \in SeqsUpTo(WellFormedItems, MaxLen - 1)}

\* values given to replaceAll: arrays, and a value that is not an array
ImportData == {ArrayOf(q) : q \in ImportArrays} \cup {NotAnArray}

(***************************************************************************)
(* State machine                                                           *)
(***************************************************************************)
Cur == Store(cache, storage)

Call(op, outcome) == [op |-> op, outcome |-> outcome]

\* the store before its first use and the component's import error
StoreInit ==
  /\ cache = Null
  /\ storage = Null
  /\ importErrorKey = Null
  /\ importsPending = 0
  /\ writeFailures = 0
  /\ call = Call("init", "init")

\* the initial values of the component's card list, filter and sort fields
ViewInit ==
  /\ cards = <<>>
  /\ searchTerm = <<>>
  /\ filterRarity = "all"
  /\ filterOwnership = "all"
  /\ sortBy = "collectorNumber"
  /\ loading = FALSE
  /\ errorKey = Null

\* ---------------------------------------------------------------------------
\* TranslationService

Languages == {"es", "en"}
DEFAULT_LANGUAGE == "es"

\* the dictionary requests of one run
MaxRequests == 3

\* /assets/i18n/<lang>.json, as pairs of key and text
Dictionary(lang) ==
  IF lang = "es" THEN {<<"appTitle", "Coleccion">>}
                 ELSE {<<"appTitle", "Collection">>}

\* translate: this.translations[key] ?? key
translate(dict, key) ==
  IF \E pair \in dict : pair[1] = key
  THEN (CHOOSE pair \in dict : pair[1] = key)[2]
  ELSE key

\* a dictionary request whose response has not arrived
Request(lang) == [lang |-> lang, status |-> "pending"]

\* initializeLanguage: the language whose dictionary the constructor requests
initializeLanguage(saved) ==
  IF saved = Some("es") \/ saved = Some("en") THEN saved[1] ELSE DEFAULT_LANGUAGE

\* the service after its constructor, with saved as the stored preference
LanguageConstructed(saved) ==
  /\ currentLanguage = DEFAULT_LANGUAGE
  /\ translations = {}
  /\ langStorage = saved
  /\ langRequests = <<Request(initializeLanguage(saved))>>

\* no function is being called on its own
NoCall == args = Null /\ result = Null

\* the component after its construction, with saved as the set type kept in
\* localStorage: no catalog request has been made
ComponentConstructed(saved) ==
  /\ provider = <<>>
  /\ requested = <<>>
  /\ pending = <<>>
  /\ emitted = <<>>
  /\ loads = 0
  /\ setType = "unique"
  /\ setTypeStorage = saved

NoFetch == ComponentConstructed(Null)

Init == StoreInit /\ ViewInit /\ NoCall /\ NoFetch /\ LanguageConstructed(Null)

SetCardQuantities ==
  \E in \in SetInputs :
    LET r == setCardQuantities(Cur, in[1], in[2], in[3])
    IN  /\ cache' = r.cache
        /\ storage' = r.storage
        /\ call' = Call("setCardQuantities", r.outcome)
        /\ UNCHANGED <<importErrorKey, importsPending, writeFailures, viewVars,
                     callVars, netVars, langVars>>

ToggleWanted ==
  \E id \in CardIds :
    LET r == toggleWanted(Cur, id)
    IN  /\ cache' = r.cache
        /\ storage' = r.storage
        /\ call' = Call("toggleWanted", r.outcome)
        /\ UNCHANGED <<importErrorKey, importsPending, writeFailures, viewVars,
                     callVars, netVars, langVars>>

\* AppComponent.exportCollection: getAll() loads the cache on first use, and
\* the ledger is handed to FileHelper.exportAsJson
ExportCollection ==
  /\ cache' = afterLoad(Cur).cache
  /\ UNCHANGED <<storage, importErrorKey, importsPending, writeFailures, call,
                 viewVars, callVars, netVars, langVars>>

\* most imports whose file is being read at one time
MaxImportsPending == 1

\* AppComponent.onImportFileSelected up to its await: no file selected (the
\* handler returns at once), or FileHelper.readJsonFile(file) is started and
\* the handler returns to the event loop
OnImportFileSelected ==
  \/ UNCHANGED vars
  \/ /\ importsPending < MaxImportsPending
     /\ importsPending' = importsPending + 1
     /\ UNCHANGED <<cache, storage, importErrorKey, writeFailures, call,
                    viewVars, callVars, netVars, langVars>>

\* the rest of onImportFileSelected, run when the reading of a file ends: the
\* file cannot be read or parsed, or it holds the JSON value data
ImportFileRead ==
  /\ importsPending > 0
  /\ importsPending' = importsPending - 1
  /\ \/ /\ call' = Call("onImportFileSelected", "unreadable")
        /\ importErrorKey' = Some("importError")
        /\ UNCHANGED <<cache, storage, writeFailures, viewVars, callVars,
                       netVars, langVars>>
     \/ \E data \in ImportData :
          LET r == replaceAll(Cur, data)
          IN  /\ cache' = r.cache
              /\ storage' = r.storage
              /\ call' = Call("onImportFileSelected", r.outcome)
              /\ importErrorKey' = IF r.outcome = "threw"
                                   THEN Some("importError") ELSE Null
              /\ UNCHANGED <<writeFailures, viewVars, callVars, netVars,
                             langVars>>

Next ==
  \/ SetCardQuantities
  \/ ToggleWanted
  \/ OnImportFileSelected
  \/ ImportFileRead
  \/ ExportCollection

Spec == Init /\ [][Next]_vars

\* the ledger held in memory and the ledger held in storage
InMemory == IF cache = Null THEN <<>> ELSE cache[1]
Persisted == IF storage = Null THEN <<>> ELSE JSONparse(storage[1])

TypeOK ==
  /\ Len(InMemory) >= 0
  /\ Len(Persisted) >= 0
  /\ importErrorKey \in {Null, Some("importError")}

(***************************************************************************)
(* Claims                                                                  *)
(***************************************************************************)
NoEmptyRecord(ledger) == \A i \in 1..Len(ledger) : ~IsEmptyRecord(ledger[i])

\* C1: neither the ledger in memory nor the persisted ledger ever holds a
\* record with normalQty = 0, foilQty = 0 and wanted false.
C1_PruningInvariant == NoEmptyRecord(InMemory) /\ NoEmptyRecord(Persisted)

\* setCardQuantities has just removed a record and another record remains
C1_Witness ==
  /\ call = Call("setCardQuantities", "removed")
  /\ Len(InMemory) >= 1
  /\ Len(Persisted) >= 1

\* C2: when the record of a card is absent or not wanted,
\* setCardQuantities(id, 0, 0) leaves getCard(id) absent.
C2_ZeroQuantitiesRemove ==
  \A id \in CardIds :
    LET before == getCard(Cur, id)
        after == getCard(setCardQuantities(Cur, id, Num(0), Num(0)), id)
    IN  (before = Null \/ ~ToBoolean(before[1].wanted)) => after = Null

UniqueIds(ledger) ==
  \A i, j \in 1..Len(ledger) : i # j => ledger[i].cardId # ledger[j].cardId

\* C3: the ledger holds at most one record per cardId.
C3_UniqueCardIds == UniqueIds(InMemory) /\ UniqueIds(Persisted)

\* C4: an import whose value is not an array raises an error, sets the import
\* error and leaves the ledger in memory and the persisted ledger as they were.
C4_ImportRejectionKeepsLedger ==
  [][ (importsPending' < importsPending /\ call'.outcome = "threw")
        => /\ call'.op = "onImportFileSelected"
           /\ cache' = cache
           /\ storage' = storage
           /\ importErrorKey' = Some("importError")
           /\ replaceAll(Cur, NotAnArray).outcome = "threw" ]_vars

\* an import was rejected for its shape while the ledger held a record
C4_Witness ==
  /\ call = Call("onImportFileSelected", "threw")
  /\ importErrorKey = Some("importError")
  /\ Len(InMemory) >= 1
  /\ InMemory = Persisted

\* the operations of the store that returned normally
ReturnedNormally ==
  \/ call.op \in {"setCardQuantities", "toggleWanted"}
  \/ call = Call("onImportFileSelected", "replaced")

\* C5: after every setCardQuantities, toggleWanted or replaceAll that returns
\* normally the persisted ledger and the cache hold exactly the same records.
C5_WriteThrough == ReturnedNormally => (cache # Null /\ InMemory = Persisted)

\* the records of a ledger whose cardId is not id
OtherRecords(ledger, id) ==
  {ledger[i] : i \in {j \in 1..Len(ledger) : ledger[j].cardId # id}}

\* C6: toggleWanted(id) called twice in a row restores the record of id (or
\* its absence) and the set of all other records.
C6_ToggleTwiceRestores ==
  \A id \in CardIds :
    LET once == toggleWanted(Cur, id)
        twice == toggleWanted(once, id)
    IN  /\ getCard(twice, id) = getCard(Cur, id)
        /\ OtherRecords(getAll(twice), id) = OtherRecords(getAll(Cur), id)

RecordSet(ledger) == {ledger[i] : i \in 1..Len(ledger)}

ItemsOf(ledger) == [i \in 1..Len(ledger) |-> AsItem(ledger[i])]

\* C7: replaceAll(getAll()) leaves the ledger with the same set of records.
C7_ReplaceAllGetAllRoundTrip ==
  LET after == replaceAll(Cur, ArrayOf(ItemsOf(getAll(Cur))))
  IN  /\ after.outcome = "replaced"
      /\ RecordSet(getAll(after)) = RecordSet(getAll(Cur))

QuantitiesWhole(ledger) ==
  \A i \in 1..Len(ledger) :
    IsNonNegInteger(ledger[i].normalQty) /\ IsNonNegInteger(ledger[i].foilQty)

\* C8: every quantity stored in the ledger, in memory and persisted, is a
\* non-negative integer (a negative or non-numeric input being stored as 0).
C8_QuantitiesClamped == QuantitiesWhole(InMemory) /\ QuantitiesWhole(Persisted)

\* a quantity as the claims describe its clamping: a negative or non-numeric
\* value counts as 0, a non-negative number as itself
ClampedQty(v) ==
  LET x == ToNumber(v)
  IN  IF x.k = "NaN" \/ (x.k = "number" /\ x.n < 0) THEN Num(0) ELSE x

\* the pair setCardQuantities works with: as above, for the values x || 0
\* leaves to Math.max
ClampedQtyOfSet(v) ==
  IF v.k \in {"undefined", "null", "NaN"} THEN Num(0)
  ELSE LET x == ToNumber(v)
       IN  IF x.k = "number" /\ x.n < 0 THEN Num(0) ELSE x

ExpectedRecord(item) ==
  [cardId    |-> item.cardId,
   normalQty |-> ClampedQty(item.normalQty),
   foilQty   |-> ClampedQty(item.foilQty),
   wanted    |-> Bool(ToBoolean(item.wanted))]

\* an object with a string cardId that is not (0, 0, not wanted)
KeptByClaim(item) ==
  /\ item.v = Obj
  /\ item.cardId.k = "string"
  /\ LET r == ExpectedRecord(item)
     IN  ~(r.normalQty = Num(0) /\ r.foilQty = Num(0) /\ r.wanted = Bool(FALSE))

ExpectedByClaim(items) ==
  LET kept == SelectSeq(items, KeptByClaim)
  IN  [i \in 1..Len(kept) |-> ExpectedRecord(kept[i])]

\* C9: for any array, replaceAll raises no error and the new ledger is exactly
\* the entries that are objects with a string cardId and are not (0, 0, not
\* wanted), each with quantities clamped to non-negative integers and a boolean
\* wanted; nothing of the previous ledger survives.
C9_Sanitization ==
  \A data \in ImportData :
    data.isArray =>
      LET r == replaceAll(Cur, data)
      IN  /\ r.outcome = "replaced"
          /\ getAll(r) = ExpectedByClaim(data.items)
          /\ QuantitiesWhole(getAll(r))

\* C10: setCardQuantities(id, ..) with clamped pair (n, f): an existing record
\* gets (n, f), keeps its wanted flag and is removed exactly when n = 0, f = 0
\* and it is not wanted; with no record and (0, 0) the ledger and the persisted
\* copy are unchanged; otherwise a record (n, f, wanted = false) is added.
C10_SetCardQuantitiesRule ==
  \A in \in SetInputs :
    LET id == in[1]
        n == ClampedQtyOfSet(in[2])
        f == ClampedQtyOfSet(in[3])
        before == getAll(Cur)
        r == setCardQuantities(Cur, id, in[2], in[3])
        after == getAll(r)
        idx == FindIndex(before, id)
        zero == n = Num(0) /\ f = Num(0)
    IN  IF idx # 0
        THEN IF zero /\ before[idx].wanted = Bool(FALSE)
             THEN /\ Len(after) = Len(before) - 1
                  /\ \A i \in 1..Len(after) :
                       after[i] = IF i < idx THEN before[i] ELSE before[i + 1]
             ELSE /\ Len(after) = Len(before)
                  /\ after[idx] = [cardId |-> id, normalQty |-> n, foilQty |-> f,
                                   wanted |-> before[idx].wanted]
                  /\ \A i \in 1..Len(before) : i # idx => after[i] = before[i]
        ELSE IF zero
             THEN after = before /\ r.storage = storage
             ELSE after = Append(before, [cardId |-> id, normalQty |-> n,
                                          foilQty |-> f, wanted |-> Bool(FALSE)])

\* setCardQuantities has set the copies of a wanted card to none and kept it
C10_Witness ==
  /\ call = Call("setCardQuantities", "updated")
  /\ \E i \in 1..Len(InMemory) :
       /\ InMemory[i].normalQty = Num(0)
       /\ InMemory[i].foilQty = Num(0)
       /\ InMemory[i].wanted = Bool(TRUE)

\* C11: toggleWanted(id): with no record of id a record (0, 0, wanted = true) is
\* added; otherwise the record's wanted flag is flipped, its quantities are
\* unchanged, and the record is removed exactly when wanted became false and
\* both quantities are 0; the other records are unchanged.
C11_ToggleWantedRule ==
  \A id \in CardIds :
    LET before == getAll(Cur)
        after == getAll(toggleWanted(Cur, id))
        idx == FindIndex(before, id)
    IN  IF idx = 0
        THEN after = Append(before, [cardId |-> id, normalQty |-> Num(0),
                                     foilQty |-> Num(0), wanted |-> Bool(TRUE)])
        ELSE LET nowWanted == before[idx].wanted = Bool(FALSE)
             IN  IF /\ ~nowWanted
                    /\ before[idx].normalQty = Num(0)
                    /\ before[idx].foilQty = Num(0)
                 THEN /\ Len(after) = Len(before) - 1
                      /\ \A i \in 1..Len(after) :
                           after[i] = IF i < idx THEN before[i] ELSE before[i + 1]
                 ELSE /\ Len(after) = Len(before)
                      /\ after[idx] = [before[idx] EXCEPT !.wanted = Bool(nowWanted)]
                      /\ \A i \in 1..Len(before) : i # idx => after[i] = before[i]

\* toggleWanted has just removed a record that was wanted without copies, and
\* another record remains
C11_Witness ==
  /\ call = Call("toggleWanted", "removed")
  /\ Len(InMemory) >= 1
  /\ InMemory = Persisted

(***************************************************************************)
(* Cards (MtgCard) and texts                                               *)
(***************************************************************************)
MaxCards == 2      \* longest card list given to a function called on its own

\* an MtgCard; a price is Null or Some(amount in cents); imageUrl plays no part
Card(id, name, collectorNumber, rarity, hasNonFoil, hasFoil, priceNonFoil, priceFoil) ==
  [id |-> id, name |-> name, collectorNumber |-> collectorNumber,
   rarity |-> rarity, hasNonFoil |-> hasNonFoil, hasFoil |-> hasFoil,
   eurPriceNonFoil |-> priceNonFoil, eurPriceFoil |-> priceFoil]

CardA == Card("a", <<"A", "b">>, <<"2">>, "common", TRUE, TRUE, Some(150), Some(300))
CardB == Card("b", <<"b">>, <<"1", "0">>, "rare", TRUE, FALSE, Some(200), Null)
CardC == Card("c", <<"a", " ", "B">>, <<"1", "a">>, "mythic", FALSE, TRUE, Some(100), Some(500))
CardD == Card("d", <<"b", "A">>, <<"1", "0", "a">>, "uncommon", TRUE, TRUE, Null, Null)

\* a card of a rarity outside the four tiers, with the name of CardB
CardE == Card("e", <<"b">>, <<"9">>, "special", TRUE, FALSE, Some(200), Null)

CardPool == {CardA, CardB, CardC, CardD}

\* String.prototype.toLowerCase, one character and a text
LowerChar(ch) ==
  CASE ch = "A" -> "a"
    [] ch = "B" -> "b"
    [] OTHER -> ch

\* a toLowerCase that leaves capitals as they are
ToLowerCase_KeepsCase(text) == text

ToLowerCase(text) == [i \in 1..Len(text) |-> LowerChar(text[i])]

\* String.prototype.trim
RECURSIVE TrimStart(_)
TrimStart(text) ==
  IF text # <<>> /\ Head(text) = " " THEN TrimStart(Tail(text)) ELSE text

RECURSIVE TrimEnd(_)
TrimEnd(text) ==
  IF text # <<>> /\ text[Len(text)] = " "
  THEN TrimEnd(SubSeq(text, 1, Len(text) - 1))
  ELSE text

Trim(text) == TrimEnd(TrimStart(text))

\* String.prototype.includes
Includes(text, part) ==
  \E i \in 0..(Len(text) - Len(part)) : SubSeq(text, i + 1, i + Len(part)) = part

(***************************************************************************)
(* FilterService                                                           *)
(***************************************************************************)
FilterCriteria(term, rarity, ownership, print) ==
  [searchTerm |-> term, rarity |-> rarity, ownership |-> ownership, print |-> print]

\* the value getOwnershipInfo returns
OwnershipInfo(isOwned, isFoilOwned, isWanted) ==
  [isOwned |-> isOwned, isFoilOwned |-> isFoilOwned, isWanted |-> isWanted]

filterBySearchTerm(list, term) ==
  LET t == ToLowerCase(Trim(term))
  IN  IF t = <<>> THEN list
      ELSE SelectSeq(list, LAMBDA card : Includes(ToLowerCase(card.name), t))

filterByRarity(list, rarity) ==
  IF rarity = "all" THEN list
  ELSE SelectSeq(list, LAMBDA card : card.rarity = rarity)

\* filterByOwnership whose 'missing' case lacks the negation
filterByOwnership_NoNegation(list, ownership, getOwnershipInfo) ==
  IF ownership = "all" THEN list
  ELSE SelectSeq(list, LAMBDA card :
         LET info == getOwnershipInfo[card.id]
         IN  CASE ownership = "owned" -> info.isOwned
               [] ownership = "missing" -> info.isOwned
               [] ownership = "foilOwned" -> info.isFoilOwned
               [] ownership = "wanted" -> info.isWanted
               [] OTHER -> TRUE)

\* getOwnershipInfo is a function from card ids to OwnershipInfo
filterByOwnership(list, ownership, getOwnershipInfo) ==
  IF ownership = "all" THEN list
  ELSE SelectSeq(list, LAMBDA card :
         LET info == getOwnershipInfo[card.id]
         IN  CASE ownership = "owned" -> info.isOwned
               [] ownership = "missing" -> ~info.isOwned
               [] ownership = "foilOwned" -> info.isFoilOwned
               [] ownership = "wanted" -> info.isWanted
               [] OTHER -> TRUE)

filterByPrint(list, print) ==
  CASE print = "all" -> list
    [] print = "hasFoil" -> SelectSeq(list, LAMBDA card : card.hasFoil)
    [] print = "hasNonFoil" -> SelectSeq(list, LAMBDA card : card.hasNonFoil)
    [] OTHER -> list

\* filterCards without its last stage
filterCards_NoPrint(list, criteria, getOwnershipInfo) ==
  filterByOwnership(
    filterByRarity(filterBySearchTerm(list, criteria.searchTerm), criteria.rarity),
    criteria.ownership, getOwnershipInfo)

\* filterCards(cards, criteria, getOwnershipInfo)
filterCards(list, criteria, getOwnershipInfo) ==
  filterByPrint(
    filterByOwnership(
      filterByRarity(filterBySearchTerm(list, criteria.searchTerm), criteria.rarity),
      criteria.ownership, getOwnershipInfo),
    criteria.print)

(***************************************************************************)
(* filterCards called on its own                                           *)
(***************************************************************************)
CardLists == SeqsUpTo(CardPool, MaxCards)

SearchTerms == {<<>>, <<" ">>, <<"B">>, <<"a", "b", " ">>, <<"1">>}
RarityFilters == {"all", "common", "rare"}
OwnershipFilters == {"all", "owned", "missing", "foilOwned", "wanted"}
PrintFilters == {"all", "hasFoil", "hasNonFoil"}

Criteria ==
  {FilterCriteria(t, r, o, p) :
     t \in SearchTerms, r \in RarityFilters, o \in OwnershipFilters, p \in PrintFilters}

PoolIds == {card.id : card \in CardPool}

\* ownership lookups: nothing owned, everything owned and wanted, and a mixed one
Lookups ==
  { [id \in PoolIds |-> OwnershipInfo(FALSE, FALSE, FALSE)],
    [id \in PoolIds |-> OwnershipInfo(TRUE, TRUE, TRUE)],
    [id \in PoolIds |->
       CASE id = "a" -> OwnershipInfo(TRUE, TRUE, FALSE)
         [] id = "b" -> OwnershipInfo(TRUE, FALSE, TRUE)
         [] id = "c" -> OwnershipInfo(FALSE, FALSE, TRUE)
         [] OTHER -> OwnershipInfo(FALSE, TRUE, FALSE)] }

FilterArgs ==
  {[cards |-> l, criteria |-> c, getOwnershipInfo |-> g] :
     l \in CardLists, c \in Criteria, g \in Lookups}

FilterInit ==
  /\ StoreInit
  /\ ViewInit
  /\ args \in {Some(a) : a \in FilterArgs}
  /\ result = Null
  /\ NoFetch
  /\ LanguageConstructed(Null)

FilterCards ==
  /\ args # Null
  /\ result = Null
  /\ result' = Some(filterCards(args[1].cards, args[1].criteria,
                                args[1].getOwnershipInfo))
  /\ UNCHANGED <<storeVars, viewVars, args, netVars, langVars>>

FilterNext == FilterCards

FilterSpec == FilterInit /\ [][FilterNext]_vars

\* one stage of filterCards: 1 search, 2 rarity, 3 ownership, 4 print
Stage(k, list, criteria, getOwnershipInfo) ==
  CASE k = 1 -> filterBySearchTerm(list, criteria.searchTerm)
    [] k = 2 -> filterByRarity(list, criteria.rarity)
    [] k = 3 -> filterByOwnership(list, criteria.ownership, getOwnershipInfo)
    [] OTHER -> filterByPrint(list, criteria.print)

\* the stages applied in the order given
RECURSIVE ApplyStages(_, _, _, _)
ApplyStages(order, list, criteria, getOwnershipInfo) ==
  IF order = <<>> THEN list
  ELSE ApplyStages(Tail(order),
                   Stage(Head(order), list, criteria, getOwnershipInfo),
                   criteria, getOwnershipInfo)

StageOrders == {o \in [1..4 -> 1..4] : \A i, j \in 1..4 : i # j => o[i] # o[j]}

\* the card alone passes stage k
PassesStage(k, card, criteria, getOwnershipInfo) ==
  Stage(k, <<card>>, criteria, getOwnershipInfo) = <<card>>

\* C12: filterCards returns exactly the cards that pass each of the four
\* stages, in their input order; the stages applied in any order give the same
\* list; a stage whose criterion is 'all', or whose search term is empty or
\* blank, removes nothing.
C12_FilterConjunction ==
  result # Null =>
    LET a == args[1]
        c == a.criteria
        g == a.getOwnershipInfo
    IN  /\ result[1] = SelectSeq(a.cards, LAMBDA card :
                         \A k \in 1..4 : PassesStage(k, card, c, g))
        /\ \A o \in StageOrders : ApplyStages(o, a.cards, c, g) = result[1]
        /\ Trim(c.searchTerm) = <<>> => Stage(1, a.cards, c, g) = a.cards
        /\ c.rarity = "all" => Stage(2, a.cards, c, g) = a.cards
        /\ c.ownership = "all" => Stage(3, a.cards, c, g) = a.cards
        /\ c.print = "all" => Stage(4, a.cards, c, g) = a.cards

\* filterCards has returned a list from which every stage removed a card
C12_Witness ==
  /\ result # Null
  /\ Len(args[1].cards) = MaxCards
  /\ Len(result[1]) = 1
  /\ \A k \in 1..4 :
       Len(Stage(k, args[1].cards, args[1].criteria, args[1].getOwnershipInfo)) < MaxCards

(***************************************************************************)
(* Arithmetic and comparison of finite JavaScript numbers n/d, d = 1 or 2  *)
(***************************************************************************)
\* twice the number, an integer
Twice(v) == IF v.d = 1 THEN 2 * v.n ELSE v.n

FromHalves(h) == IF h % 2 = 0 THEN Num(h \div 2) ELSE Half(h)

\* a + b, a - b, a > b
Plus(a, b) == FromHalves(Twice(a) + Twice(b))
Minus(a, b) == FromHalves(Twice(a) - Twice(b))
Gt(a, b) == Twice(a) > Twice(b)

\* q * price, price a whole number
Times(q, price) == FromHalves(Twice(q) * price.n)

\* Math.max(a, b)
MathMax(a, b) == IF Gt(b, a) THEN b ELSE a

\* the sum of a sequence of numbers, from 0
RECURSIVE SumSeq(_)
SumSeq(nums) ==
  IF nums = <<>> THEN Num(0)
  ELSE Plus(SumSeq(SubSeq(nums, 1, Len(nums) - 1)), nums[Len(nums)])

\* price ?? 0, the price in cents
PriceOrZero(price) == IF price = Null THEN Num(0) ELSE Num(price[1])

(***************************************************************************)
(* Sorting (Array.prototype.sort is stable)                                *)
(***************************************************************************)
Digits == {"0", "1", "2", "3", "4", "5", "6", "7", "8", "9"}

DigitValue(ch) ==
  CASE ch = "0" -> 0 [] ch = "1" -> 1 [] ch = "2" -> 2 [] ch = "3" -> 3
    [] ch = "4" -> 4 [] ch = "5" -> 5 [] ch = "6" -> 6 [] ch = "7" -> 7
    [] ch = "8" -> 8 [] OTHER -> 9

\* the number of leading digits of a text
RECURSIVE DigitCount(_)
DigitCount(text) ==
  IF text # <<>> /\ Head(text) \in Digits THEN 1 + DigitCount(Tail(text)) ELSE 0

\* the value of a text of digits
RECURSIVE DigitsValue(_)
DigitsValue(text) ==
  IF text = <<>> THEN 0
  ELSE 10 * DigitsValue(SubSeq(text, 1, Len(text) - 1)) + DigitValue(text[Len(text)])

\* the rank of a character in the collation: space, digits, letters
\* (a letter and its capital have the same rank)
CharRank(ch) ==
  CASE ch = " " -> 0
    [] ch \in Digits -> 1 + DigitValue(ch)
    [] LowerChar(ch) = "a" -> 11
    [] OTHER -> 12

\* comparison of two texts by the ranks of their characters: -1, 0 or 1
RECURSIVE CompareRanks(_, _)
CompareRanks(s, t) ==
  CASE s = <<>> /\ t = <<>> -> 0
    [] s = <<>> -> -1
    [] t = <<>> -> 1
    [] OTHER ->
         IF CharRank(Head(s)) < CharRank(Head(t)) THEN -1
         ELSE IF CharRank(Head(s)) > CharRank(Head(t)) THEN 1
         ELSE CompareRanks(Tail(s), Tail(t))

\* between texts equal but for capitals, the one with the first small letter
\* where they differ comes first
RECURSIVE CompareCase(_, _)
CompareCase(s, t) ==
  IF s = <<>> \/ t = <<>> THEN 0
  ELSE IF Head(s) = Head(t) THEN CompareCase(Tail(s), Tail(t))
  ELSE IF Head(s) = LowerChar(Head(s)) THEN -1 ELSE 1

\* s.localeCompare(t)
LocaleCompare(s, t) ==
  IF CompareRanks(s, t) # 0 THEN CompareRanks(s, t) ELSE CompareCase(s, t)

\* localeCompare without the numeric option
LocaleCompareNumeric_Plain(s, t) == LocaleCompare(s, t)

\* s.localeCompare(t, 'en', { numeric: true }) for texts made of digits
\* followed by letters: the numbers first, then the rest
LocaleCompareNumeric(s, t) ==
  LET ns == DigitsValue(SubSeq(s, 1, DigitCount(s)))
      nt == DigitsValue(SubSeq(t, 1, DigitCount(t)))
  IN  IF ns < nt THEN -1
      ELSE IF ns > nt THEN 1
      ELSE LocaleCompare(SubSeq(s, DigitCount(s) + 1, Len(s)),
                         SubSeq(t, DigitCount(t) + 1, Len(t)))

\* the compare function sortCards passes to sort: negative, 0 or positive
CompareCards(key, a, b) ==
  CASE key = "collectorNumber" ->
         LocaleCompareNumeric(a.collectorNumber, b.collectorNumber)
    [] key = "collectorNumberDesc" ->
         LocaleCompareNumeric(b.collectorNumber, a.collectorNumber)
    [] key = "nameAsc" -> LocaleCompare(a.name, b.name)
    [] key = "nameDesc" -> LocaleCompare(b.name, a.name)
    [] key = "priceAsc" ->
         Twice(Minus(PriceOrZero(a.eurPriceNonFoil), PriceOrZero(b.eurPriceNonFoil)))
    [] key = "priceDesc" ->
         Twice(Minus(PriceOrZero(b.eurPriceNonFoil), PriceOrZero(a.eurPriceNonFoil)))
    [] OTHER -> 0

\* a card put into a sorted list before the cards it compares equal to
RECURSIVE InsertCard_BeforeEqual(_, _, _)
InsertCard_BeforeEqual(key, card, sorted) ==
  IF sorted = <<>> THEN <<card>>
  ELSE IF CompareCards(key, card, Head(sorted)) <= 0 THEN <<card>> \o sorted
  ELSE <<Head(sorted)>> \o InsertCard_BeforeEqual(key, card, Tail(sorted))

\* a card put into a sorted list after the cards that do not come after it
RECURSIVE InsertCard(_, _, _)
InsertCard(key, card, sorted) ==
  IF sorted = <<>> THEN <<card>>
  ELSE IF CompareCards(key, card, Head(sorted)) < 0 THEN <<card>> \o sorted
  ELSE <<Head(sorted)>> \o InsertCard(key, card, Tail(sorted))

\* list.sort(compare)
RECURSIVE ArraySort(_, _)
ArraySort(key, list) ==
  IF list = <<>> THEN <<>>
  ELSE InsertCard(key, list[Len(list)],
                  ArraySort(key, SubSeq(list, 1, Len(list) - 1)))

SortKeys == {"collectorNumber", "collectorNumberDesc", "nameAsc", "nameDesc",
             "priceAsc", "priceDesc"}

\* AppComponent.sortCards with this.sortBy = key
sortCards(key, list) == IF key \in SortKeys THEN ArraySort(key, list) ELSE list

\* AppComponent.sortCardsByCollectorNumber
sortCardsByCollectorNumber(list) == ArraySort("collectorNumber", list)

(***************************************************************************)
(* CollectionService lookups                                               *)
(***************************************************************************)
\* x ?? 0
OrZeroIfNullish(v) == IF v.k \in {"null", "undefined"} THEN Num(0) ELSE v

\* getNormalQty(cardId), getFoilQty(cardId), isWanted(cardId)
getNormalQty(st, cardId) ==
  LET c == getCard(st, cardId)
  IN  IF c = Null THEN Num(0) ELSE OrZeroIfNullish(c[1].normalQty)

getFoilQty(st, cardId) ==
  LET c == getCard(st, cardId)
  IN  IF c = Null THEN Num(0) ELSE OrZeroIfNullish(c[1].foilQty)

isWanted(st, cardId) ==
  LET c == getCard(st, cardId)
  IN  IF c = Null THEN FALSE ELSE ToBoolean(c[1].wanted)

(***************************************************************************)
(* AppComponent: statistics and the filtered list, read from the fields    *)
(* cards, searchTerm, filterRarity, filterOwnership, sortBy and the store  *)
(***************************************************************************)
\* isCardOwned that looks at the normal copies only
isCardOwned_NormalOnly(card) == Gt(getNormalQty(Cur, Str(card.id)), Num(0))

\* isCardOwned(card), isCardFoilOwned(card)
isCardOwned(card) ==
  \/ Gt(getNormalQty(Cur, Str(card.id)), Num(0))
  \/ Gt(getFoilQty(Cur, Str(card.id)), Num(0))

isCardFoilOwned(card) == Gt(getFoilQty(Cur, Str(card.id)), Num(0))

\* this.cards.find((c) => c.id === cardId)
FindCard(cardId) ==
  cards[CHOOSE i \in 1..Len(cards) :
          /\ cards[i].id = cardId
          /\ \A j \in 1..(i - 1) : cards[j].id # cardId]

\* the function (cardId) => ({ isOwned, isFoilOwned, isWanted }) of filteredCards
OwnershipLookup ==
  [id \in {cards[i].id : i \in 1..Len(cards)} |->
     OwnershipInfo(isCardOwned(FindCard(id)), isCardFoilOwned(FindCard(id)),
                   isWanted(Cur, Str(id)))]

filteredCards ==
  sortCards(sortBy,
            filterCards(cards,
                        FilterCriteria(searchTerm, filterRarity, filterOwnership, "all"),
                        OwnershipLookup))

totalCards == Len(cards)

ownedCards == Len(SelectSeq(cards, isCardOwned))

\* ExtraCopies without the test totalCopies > 1
ExtraCopies_NoFloor(card) ==
  Minus(Plus(getNormalQty(Cur, Str(card.id)), getFoilQty(Cur, Str(card.id))), Num(1))

\* the copies of a card beyond the first
ExtraCopies(card) ==
  LET totalCopies == Plus(getNormalQty(Cur, Str(card.id)), getFoilQty(Cur, Str(card.id)))
  IN  IF Gt(totalCopies, Num(1)) THEN Minus(totalCopies, Num(1)) ELSE Num(0)

repeatedCards == SumSeq([i \in 1..Len(cards) |-> ExtraCopies(cards[i])])

\* normalValue + foilValue of a card, in cents
OwnedValue(card) ==
  Plus(Times(getNormalQty(Cur, Str(card.id)), PriceOrZero(card.eurPriceNonFoil)),
       Times(getFoilQty(Cur, Str(card.id)), PriceOrZero(card.eurPriceFoil)))

\* Math.max(normalValue, foilValue) of the prices of a card, in cents
MarketValue(card) ==
  MathMax(PriceOrZero(card.eurPriceNonFoil), PriceOrZero(card.eurPriceFoil))

\* collectionValueEur that leaves the foil copies out
collectionValueEur_NormalOnly ==
  SumSeq([i \in 1..Len(cards) |->
            Times(getNormalQty(Cur, Str(cards[i].id)),
                  PriceOrZero(cards[i].eurPriceNonFoil))])

collectionValueEur == SumSeq([i \in 1..Len(cards) |-> OwnedValue(cards[i])])

\* cards.filter((card) => card.rarity === rarity)
OfRarity(rarity) == SelectSeq(cards, LAMBDA card : card.rarity = rarity)

getRarityTotalCards(rarity) == Len(OfRarity(rarity))

getRarityOwnedCards(rarity) == Len(SelectSeq(OfRarity(rarity), isCardOwned))

\* getRarityRepeatedCards that does not restrict the cards to the rarity
getRarityRepeatedCards_AllCards(rarity) == repeatedCards

getRarityRepeatedCards(rarity) ==
  LET list == OfRarity(rarity)
  IN  SumSeq([i \in 1..Len(list) |-> ExtraCopies(list[i])])

getRarityValue(rarity) ==
  LET list == OfRarity(rarity)
  IN  SumSeq([i \in 1..Len(list) |-> OwnedValue(list[i])])

\* a / b * 100 as the fraction [num, den], b > 0
Percentage(a, b) == [num |-> a * 100, den |-> b]

\* completionPercentage without the test totalCards === 0
completionPercentage_NoGuard == Percentage(ownedCards, totalCards)

completionPercentage ==
  IF totalCards = 0 THEN Percentage(0, 1) ELSE Percentage(ownedCards, totalCards)

shouldShowTotalFilterStats ==
  filterOwnership \in {"missing", "foilOwned", "wanted"}

filteredTotalCards == Len(filteredCards)

filteredOwnedCards == Len(SelectSeq(filteredCards, isCardOwned))

filteredCompletionPercentage ==
  IF filteredTotalCards = 0 THEN Percentage(0, 1)
  ELSE Percentage(filteredOwnedCards, filteredTotalCards)

\* filteredCollectionValueEur that always sums the owned value
filteredCollectionValueEur_OwnedOnly ==
  SumSeq([i \in 1..Len(filteredCards) |-> OwnedValue(filteredCards[i])])

filteredCollectionValueEur ==
  IF shouldShowTotalFilterStats
  THEN SumSeq([i \in 1..Len(filteredCards) |-> MarketValue(filteredCards[i])])
  ELSE SumSeq([i \in 1..Len(filteredCards) |-> OwnedValue(filteredCards[i])])

(***************************************************************************)
(* AppComponent as a state machine: the card list is loaded once, then the *)
(* quantity fields, the wanted button and the filter controls are used     *)
(***************************************************************************)
MaxPages == 3      \* most pages a provider answers with
MaxLoads == 2      \* most times loadCards is called

\* a ScryfallCard; nonfoil and foil are JavaScript values, eur and eur_foil are
\* Null (no price) or Some(text)
ScryfallCard(id, name, collectorNumber, rarity, nonfoil, foil, eur, eurFoil) ==
  [id |-> id, name |-> name, collector_number |-> collectorNumber,
   rarity |-> rarity, nonfoil |-> nonfoil, foil |-> foil,
   eur |-> eur, eur_foil |-> eurFoil]

\* parseFloat of a price text, in cents; NaN when the text is not a number
parseFloat(text) ==
  CASE text = "1.00" -> Num(100)
    [] text = "1.50" -> Num(150)
    [] text = "2.00" -> Num(200)
    [] text = "3.00" -> Num(300)
    [] text = "5.00" -> Num(500)
    [] OTHER -> NaN

\* the price mapToMtgCard stores for a price text of the response
ParsedPrice(price) ==
  IF price = Null \/ price[1] = "" THEN Null
  ELSE IF parseFloat(price[1]).k = "NaN" THEN Null
  ELSE Some(parseFloat(price[1]).n)

mapToMtgCard(card) ==
  Card(card.id, card.name, card.collector_number, card.rarity,
       ToBoolean(card.nonfoil), ToBoolean(card.foil),
       ParsedPrice(card.eur), ParsedPrice(card.eur_foil))

\* cards.map((c) => this.mapToMtgCard(c))
MapCards(list) == [i \in 1..Len(list) |-> mapToMtgCard(list[i])]

ScryA ==
  ScryfallCard("a", <<"A", "b">>, <<"2">>, "common", Bool(TRUE), Bool(TRUE),
               Some("1.50"), Some("3.00"))
ScryB ==
  ScryfallCard("b", <<"b">>, <<"1", "0">>, "rare", Bool(TRUE), Undefined,
               Some("2.00"), Some(""))
ScryC ==
  ScryfallCard("c", <<"a", " ", "B">>, <<"1", "a">>, "mythic", Bool(FALSE), Bool(TRUE),
               Some("1.00"), Some("5.00"))
ScryD ==
  ScryfallCard("d", <<"b", "A">>, <<"1", "0", "a">>, "uncommon", Bool(TRUE), Bool(TRUE),
               Null, Some("n/a"))

ScryE ==
  ScryfallCard("e", <<"b">>, <<"9">>, "special", Bool(TRUE), Bool(FALSE),
               Some("2.00"), Null)

\* a provider with the pages of the given data: page i is answered at URL i,
\* and every page but the last names the next
ProviderOf(data) ==
  [i \in 1..Len(data) |->
     [data |-> data[i],
      has_more |-> i < Len(data),
      next_page |-> IF i < Len(data) THEN Some(i + 1) ELSE Null]]

\* the pages a provider answers the request of getFinalFantasyCards with, of
\* which it serves the first n; the request is the same for every set type
PageCycle == <<<<ScryD, ScryA>>, <<>>, <<ScryC, ScryB>>>>

PagesOf(n) == [i \in 1..n |-> PageCycle[((i - 1) % Len(PageCycle)) + 1]]

\* the providers of the paginated fetch: any number of pages up to MaxPages,
\* and one that answers with two other pages
FetchProviders ==
  {ProviderOf(PagesOf(n)) : n \in 1..MaxPages}
    \cup {ProviderOf(<<<<ScryC, ScryB>>, <<ScryD, ScryA>>>>)}

\* providers that answer with one page, a catalog of the component
AppProviders ==
  {ProviderOf(<<data>>) : data \in {<<ScryA>>, <<ScryE>>, <<ScryB, ScryC>>}}

\* the callback of fetchAllPages without the cards of the earlier pages
switchMapResponse_DropsAcc(resp, acc) ==
  IF resp.has_more /\ resp.next_page # Null
  THEN [request |-> resp.next_page, combined |-> resp.data]
  ELSE [request |-> Null, combined |-> resp.data]

\* the callback fetchAllPages gives switchMap: the page to request next, if
\* any, and the cards so far
switchMapResponse(resp, acc) ==
  LET combined == acc \o resp.data
  IN  IF resp.has_more /\ resp.next_page # Null
      THEN [request |-> resp.next_page, combined |-> combined]
      ELSE [request |-> Null, combined |-> combined]

\* what the subscriber of the fetch receives
NextValue(list) == [kind |-> "next", cards |-> list]
ErrorValue == [kind |-> "error", cards |-> <<>>]

(***************************************************************************)
(* AppComponent.ngOnInit, onSetTypeChange, loadCards and the requests of   *)
(* fetchAllPages                                                           *)
(***************************************************************************)
SetTypes == {"unique", "complete"}

\* loadCards(): loading and errorKey are set, the first page is requested and
\* the method returns; the url it computes from the set type is not used by
\* getFinalFantasyCards, which takes no parameter
loadCards(providers) ==
  /\ loads < MaxLoads
  /\ loads' = loads + 1
  /\ \E p \in providers : provider' = Append(provider, p)
  /\ loading' = TRUE
  /\ errorKey' = Null
  /\ requested' = Append(requested, <<1>>)
  /\ emitted' = Append(emitted, <<>>)
  /\ pending' = Append(pending, Some([url |-> 1, acc |-> <<>>]))
  /\ UNCHANGED <<storeVars, cards, searchTerm, filterRarity, filterOwnership,
                 sortBy, callVars, langVars>>

\* initializeSetType: a saved set type that is truthy replaces the default
initializeSetType(saved, type) ==
  IF saved # Null /\ saved[1] # "" THEN saved[1] ELSE type

\* ngOnInit, which runs once: initializeLanguage subscribes the component's
\* language to the service's current language, initializeSetType reads the
\* saved set type, loadCards starts the first load
NgOnInit(providers) ==
  /\ loads = 0
  /\ setType' = initializeSetType(setTypeStorage, setType)
  /\ UNCHANGED setTypeStorage
  /\ loadCards(providers)

\* onSetTypeChange(type), of the rendered component
OnSetTypeChange(providers) ==
  /\ loads > 0
  /\ \E type \in SetTypes :
       /\ setType' = type
       /\ setTypeStorage' = Some(type)
       /\ loadCards(providers)

\* the response of a request in flight arrives: fetchAllPages requests the
\* next page, or the fetch delivers and the subscriber's next handler runs
PageArrives ==
  /\ \E k \in 1..loads :
       /\ pending[k] # Null
       /\ LET step == switchMapResponse(provider[k][pending[k][1].url],
                                        pending[k][1].acc)
          IN  IF step.request # Null
              THEN /\ requested' =
                        [requested EXCEPT ![k] = Append(@, step.request[1])]
                   /\ pending' =
                        [pending EXCEPT ![k] = Some([url |-> step.request[1],
                                                     acc |-> step.combined])]
                   /\ UNCHANGED <<emitted, cards, loading, errorKey>>
              ELSE /\ pending' = [pending EXCEPT ![k] = Null]
                   /\ emitted' =
                        [emitted EXCEPT ![k] = Append(@, NextValue(step.combined))]
                   /\ cards' = sortCardsByCollectorNumber(MapCards(step.combined))
                   /\ loading' = FALSE
                   /\ UNCHANGED <<requested, errorKey>>
  /\ UNCHANGED <<storeVars, searchTerm, filterRarity, filterOwnership, sortBy,
                 callVars, provider, loads, setType, setTypeStorage, langVars>>

\* an error handler that also empties the card list
PageFails_ClearsCards ==
  /\ \E k \in 1..loads :
       /\ pending[k] # Null
       /\ pending' = [pending EXCEPT ![k] = Null]
       /\ emitted' = [emitted EXCEPT ![k] = Append(@, ErrorValue)]
  /\ loading' = FALSE
  /\ errorKey' = Some("loadingError")
  /\ cards' = <<>>
  /\ UNCHANGED <<storeVars, searchTerm, filterRarity, filterOwnership,
                 sortBy, callVars, provider, requested, loads, setType,
                 setTypeStorage, langVars>>

\* a request in flight fails: the subscriber's error handler runs
PageFails ==
  /\ \E k \in 1..loads :
       /\ pending[k] # Null
       /\ pending' = [pending EXCEPT ![k] = Null]
       /\ emitted' = [emitted EXCEPT ![k] = Append(@, ErrorValue)]
  /\ loading' = FALSE
  /\ errorKey' = Some("loadingError")
  /\ UNCHANGED <<storeVars, cards, searchTerm, filterRarity, filterOwnership,
                 sortBy, callVars, provider, requested, loads, setType,
                 setTypeStorage, langVars>>

MaxCopies == 3     \* most copies typed into a quantity field

\* values the quantity fields pass to the handlers (value: any)
TypedValues ==
  {Num(i) : i \in 0..MaxCopies} \cup {Num(-1), Half(1), Str("abc")}

FilterSetting(term, rarity, ownership, key) ==
  [searchTerm |-> term, filterRarity |-> rarity,
   filterOwnership |-> ownership, sortBy |-> key]

\* settings of the search box, the two filter selectors and the sort selector
FilterSettings ==
  {FilterSetting(<<>>, "all", o, "collectorNumber") : o \in OwnershipFilters}
    \cup {FilterSetting(<<"B">>, "all", "all", "collectorNumberDesc"),
          FilterSetting(<<>>, "rare", "owned", "priceDesc")}

\* the fields a handler of the ledger leaves alone
AppFrame ==
  UNCHANGED <<importErrorKey, importsPending, writeFailures, call, viewVars,
              callVars, netVars, langVars>>

\* onNormalQtyChange and onFoilQtyChange with a value of the given set
NormalQtyChanged(values) ==
  \E i \in 1..Len(cards), value \in values :
    LET cardId == Str(cards[i].id)
        r == setCardQuantities(Cur, cardId, OrZero(ToNumber(value)),
                               getFoilQty(Cur, cardId))
    IN  cache' = r.cache /\ storage' = r.storage /\ AppFrame

FoilQtyChanged(values) ==
  \E i \in 1..Len(cards), value \in values :
    LET cardId == Str(cards[i].id)
        r == setCardQuantities(Cur, cardId, getNormalQty(Cur, cardId),
                               OrZero(ToNumber(value)))
    IN  cache' = r.cache /\ storage' = r.storage /\ AppFrame

OnNormalQtyChange == NormalQtyChanged(TypedValues)

OnFoilQtyChange == FoilQtyChanged(TypedValues)

\* AppComponent.toggleWanted
AppToggleWanted ==
  \E i \in 1..Len(cards) :
    LET r == toggleWanted(Cur, Str(cards[i].id))
    IN  cache' = r.cache /\ storage' = r.storage /\ AppFrame

\* the search box, the filter selectors and the sort selector are changed
FiltersChanged(settings) ==
  /\ \E f \in settings :
       /\ searchTerm' = f.searchTerm
       /\ filterRarity' = f.filterRarity
       /\ filterOwnership' = f.filterOwnership
       /\ sortBy' = f.sortBy
  /\ UNCHANGED <<storeVars, cards, loading, errorKey, callVars, netVars, langVars>>

ChangeFilters == FiltersChanged(FilterSettings)

AppNext ==
  \/ NgOnInit(AppProviders)
  \/ PageArrives
  \/ PageFails
  \/ OnNormalQtyChange
  \/ OnFoilQtyChange
  \/ AppToggleWanted
  \/ ChangeFilters
  \/ ExportCollection

AppSpec == Init /\ [][AppNext]_vars

(***************************************************************************)
(* Claims about the filtered list and the statistics of the component      *)
(***************************************************************************)
\* the ledger's record of a card, if any, and what it says
RecordOf(card) == getCard(Cur, Str(card.id))

HasCopies(card) ==
  /\ RecordOf(card) # Null
  /\ \/ Gt(RecordOf(card)[1].normalQty, Num(0))
     \/ Gt(RecordOf(card)[1].foilQty, Num(0))

HasFoilCopies(card) ==
  RecordOf(card) # Null /\ Gt(RecordOf(card)[1].foilQty, Num(0))

MarkedWanted(card) ==
  RecordOf(card) # Null /\ RecordOf(card)[1].wanted = Bool(TRUE)

\* the cards the ownership filter o lets through, with the component's lookup
ShownUnder(o) == filterByOwnership(cards, o, OwnershipLookup)

\* C13: with the lookup taken from the ledger, 'owned' passes exactly the cards
\* with normalQty > 0 or foilQty > 0, 'missing' exactly the others, 'foilOwned'
\* exactly the cards with foilQty > 0 and 'wanted' exactly the cards whose
\* record is wanted; owned and missing partition the card list.
C13_OwnershipClassification ==
  /\ ShownUnder("owned") = SelectSeq(cards, HasCopies)
  /\ ShownUnder("missing") = SelectSeq(cards, LAMBDA card : ~HasCopies(card))
  /\ ShownUnder("foilOwned") = SelectSeq(cards, HasFoilCopies)
  /\ ShownUnder("wanted") = SelectSeq(cards, MarkedWanted)
  /\ Len(ShownUnder("owned")) + Len(ShownUnder("missing")) = Len(cards)
  /\ \A i \in 1..Len(cards) :
       (\E j \in 1..Len(ShownUnder("owned")) : ShownUnder("owned")[j] = cards[i])
         # (\E j \in 1..Len(ShownUnder("missing")) : ShownUnder("missing")[j] = cards[i])
  /\ filterOwnership \in OwnershipFilters /\ searchTerm = <<>> /\ filterRarity = "all"
       => filteredCards = sortCards(sortBy, ShownUnder(filterOwnership))

\* the foil filter shows one of two cards: the one owned in foil only, while the
\* other is owned in normal copies only
C13_Witness ==
  /\ filterOwnership = "foilOwned"
  /\ Len(cards) = 2
  /\ Len(filteredCards) = 1
  /\ ~Gt(getNormalQty(Cur, Str(filteredCards[1].id)), Num(0))
  /\ Len(ShownUnder("owned")) = 2

\* the quantities the ledger holds for a card; a card without a record has none
RecordNormalQty(card) ==
  IF RecordOf(card) = Null THEN Num(0) ELSE RecordOf(card)[1].normalQty

RecordFoilQty(card) ==
  IF RecordOf(card) = Null THEN Num(0) ELSE RecordOf(card)[1].foilQty

\* a price in cents, an absent price counting as 0
Cents(price) == IF price = Null THEN 0 ELSE price[1]

\* the higher of the two prices of a card
HigherPrice(card) ==
  IF Cents(card.eurPriceNonFoil) >= Cents(card.eurPriceFoil)
  THEN Num(Cents(card.eurPriceNonFoil))
  ELSE Num(Cents(card.eurPriceFoil))

\* normalQty * priceNonFoil + foilQty * priceFoil of a card
CopiesValue(card) ==
  FromHalves(Twice(RecordNormalQty(card)) * Cents(card.eurPriceNonFoil)
             + Twice(RecordFoilQty(card)) * Cents(card.eurPriceFoil))

\* C14: under 'missing', 'foilOwned' or 'wanted' the filtered value is the sum
\* over the shown cards of the higher of the two prices (an absent price is 0);
\* under 'all' or 'owned' it is the sum of normalQty * priceNonFoil +
\* foilQty * priceFoil.  Under 'missing', shown cards priced (1.00, 5.00) and
\* (2.00, none) give 7.00.
C14_FilteredValuePolicy ==
  /\ filterOwnership \in {"missing", "foilOwned", "wanted"}
       => filteredCollectionValueEur =
            SumSeq([i \in 1..Len(filteredCards) |-> HigherPrice(filteredCards[i])])
  /\ filterOwnership \in {"all", "owned"}
       => filteredCollectionValueEur =
            SumSeq([i \in 1..Len(filteredCards) |-> CopiesValue(filteredCards[i])])
  /\ ( /\ filterOwnership = "missing"
       /\ Len(filteredCards) = 2
       /\ {filteredCards[1], filteredCards[2]} = {CardB, CardC} )
       => filteredCollectionValueEur = Num(700)

\* the scenario: 'missing' shows the cards priced (1.00, 5.00) and (2.00, none)
C14_Witness ==
  /\ filterOwnership = "missing"
  /\ Len(filteredCards) = 2
  /\ {filteredCards[1], filteredCards[2]} = {CardB, CardC}
  /\ filteredCollectionValueEur = Num(700)

\* the owned value of a list of cards
OwnedValueOf(list) == SumSeq([i \in 1..Len(list) |-> CopiesValue(list[i])])

\* C15 as stated: the owned value of the cards shown under 'missing' is zero,
\* and the owned value of the cards shown under 'wanted' is zero.
C15_MissingAndWantedValueZero ==
  /\ OwnedValueOf(ShownUnder("missing")) = Num(0)
  /\ OwnedValueOf(ShownUnder("wanted")) = Num(0)

\* C15 amended: the owned value of the cards shown under 'missing' is zero;
\* a wanted card may hold copies, so under 'wanted' the owned value is that of
\* the wanted cards that are owned, zero when no shown card holds copies.
C15_MissingValueZero ==
  /\ OwnedValueOf(ShownUnder("missing")) = Num(0)
  /\ OwnedValueOf(ShownUnder("wanted"))
       = OwnedValueOf(SelectSeq(ShownUnder("wanted"), HasCopies))
  /\ (\A i \in 1..Len(ShownUnder("wanted")) : ~HasCopies(ShownUnder("wanted")[i]))
       => OwnedValueOf(ShownUnder("wanted")) = Num(0)

\* 'missing' shows a priced card that has a wanted record without copies while
\* the other card of the catalog is owned and wanted, so that the 'wanted' list
\* has an owned value
C15_Witness ==
  /\ filterOwnership = "missing"
  /\ Len(cards) = 2
  /\ Len(filteredCards) = 1
  /\ MarkedWanted(filteredCards[1])
  /\ Len(ShownUnder("wanted")) = 2
  /\ OwnedValueOf(ShownUnder("wanted")) # Num(0)

\* C16: collectionValue is the sum over all catalog cards of
\* normalQty * priceNonFoil + foilQty * priceFoil, an absent price counting as 0
\* and a card without a record as quantities 0; with quantities (2, 1) a card
\* priced 1.50 / 3.00 contributes 6.00.
C16_CollectionValue ==
  /\ collectionValueEur = SumSeq([i \in 1..Len(cards) |-> CopiesValue(cards[i])])
  /\ \A i \in 1..Len(cards) :
       ( /\ cards[i].eurPriceNonFoil = Some(150)
         /\ cards[i].eurPriceFoil = Some(300)
         /\ RecordNormalQty(cards[i]) = Num(2)
         /\ RecordFoilQty(cards[i]) = Num(1) )
         => CopiesValue(cards[i]) = Num(600)

\* the scenario: the only card of the catalog is priced 1.50 / 3.00 and held in
\* two normal copies and one foil copy
C16_Witness ==
  /\ cards = <<CardA>>
  /\ RecordNormalQty(CardA) = Num(2)
  /\ RecordFoilQty(CardA) = Num(1)
  /\ collectionValueEur = Num(600)

\* max(0, normalQty + foilQty - 1) of a card
CopiesBeyondFirst(card) ==
  LET halves == Twice(RecordNormalQty(card)) + Twice(RecordFoilQty(card)) - 2
  IN  FromHalves(IF halves > 0 THEN halves ELSE 0)

\* C17: repeatedCards is the sum over all catalog cards of
\* max(0, normalQty + foilQty - 1): cards with zero or one copy contribute
\* nothing, and a card with quantities (3, 2) contributes 4.
C17_RepeatedCards ==
  /\ repeatedCards = SumSeq([i \in 1..Len(cards) |-> CopiesBeyondFirst(cards[i])])
  /\ \A i \in 1..Len(cards) :
       /\ ~Gt(Plus(RecordNormalQty(cards[i]), RecordFoilQty(cards[i])), Num(1))
            => ExtraCopies(cards[i]) = Num(0)
       /\ (RecordNormalQty(cards[i]) = Num(3) /\ RecordFoilQty(cards[i]) = Num(2))
            => ExtraCopies(cards[i]) = Num(4)

\* the scenario: one card is held in three normal and two foil copies, the
\* other card of the catalog in one copy, and four copies are repeated
C17_Witness ==
  /\ Len(cards) = 2
  /\ \E i, j \in 1..2 :
       /\ RecordNormalQty(cards[i]) = Num(3) /\ RecordFoilQty(cards[i]) = Num(2)
       /\ RecordNormalQty(cards[j]) = Num(1) /\ RecordFoilQty(cards[j]) = Num(0)
  /\ repeatedCards = Num(4)

\* the fraction p is the number x
IsNumber(p, x) == p.den > 0 /\ p.num = x * p.den

\* the fraction p is owned / total * 100
IsShare(p, owned, total) == p.den > 0 /\ p.num * total = owned * 100 * p.den

\* the fraction p lies between 0 and 100
InPercentRange(p) == p.den > 0 /\ 0 <= p.num /\ p.num <= 100 * p.den

\* C18: completionPercentage and its filtered variant are 0 when the card list
\* is empty, otherwise ownedCards / totalCards * 100, and lie between 0 and 100
\* because ownedCards never exceeds totalCards.
C18_CompletionPercentage ==
  /\ Len(SelectSeq(cards, HasCopies)) <= Len(cards)
  /\ IF cards = <<>>
     THEN IsNumber(completionPercentage, 0)
     ELSE IsShare(completionPercentage, Len(SelectSeq(cards, HasCopies)), Len(cards))
  /\ InPercentRange(completionPercentage)
  /\ Len(SelectSeq(filteredCards, HasCopies)) <= Len(filteredCards)
  /\ IF filteredCards = <<>>
     THEN IsNumber(filteredCompletionPercentage, 0)
     ELSE IsShare(filteredCompletionPercentage,
                  Len(SelectSeq(filteredCards, HasCopies)), Len(filteredCards))
  /\ InPercentRange(filteredCompletionPercentage)

\* one of two cards is owned: the completion is 50, and 100 within the 'owned'
\* filter
C18_Witness ==
  /\ Len(cards) = 2
  /\ filterOwnership = "owned"
  /\ IsNumber(completionPercentage, 50)
  /\ Len(filteredCards) = 1
  /\ IsNumber(filteredCompletionPercentage, 100)

\* the four rarity tiers and the catalog restricted to one of them
RarityTiers == {"common", "uncommon", "rare", "mythic"}

Restricted(rarity) == SelectSeq(cards, LAMBDA card : card.rarity = rarity)

\* the sum of f over the four tiers
SumOverTiers(f(_)) ==
  Plus(Plus(f("common"), f("uncommon")), Plus(f("rare"), f("mythic")))

\* C19: for each rarity tier, the total, owned, repeated and value figures equal
\* the overall figures computed on the catalog restricted to that rarity; when
\* every card has one of the four tiers, each figure summed over the tiers
\* equals the overall figure.
C19_RarityBreakdown ==
  /\ \A rarity \in RarityTiers :
       LET list == Restricted(rarity)
       IN  /\ getRarityTotalCards(rarity) = Len(list)
           /\ getRarityOwnedCards(rarity) = Len(SelectSeq(list, HasCopies))
           /\ getRarityRepeatedCards(rarity) =
                SumSeq([i \in 1..Len(list) |-> CopiesBeyondFirst(list[i])])
           /\ getRarityValue(rarity) = OwnedValueOf(list)
  /\ (\A i \in 1..Len(cards) : cards[i].rarity \in RarityTiers)
       => /\ SumOverTiers(LAMBDA r : Num(getRarityTotalCards(r))) = Num(totalCards)
          /\ SumOverTiers(LAMBDA r : Num(getRarityOwnedCards(r))) = Num(ownedCards)
          /\ SumOverTiers(getRarityRepeatedCards) = repeatedCards
          /\ SumOverTiers(getRarityValue) = collectionValueEur

\* a rare and a mythic card, each owned in several copies: both tiers have
\* their own repeated copies and value, below the overall figures
C19_Witness ==
  /\ Len(cards) = 2
  /\ getRarityOwnedCards("rare") = 1 /\ getRarityOwnedCards("mythic") = 1
  /\ Gt(getRarityRepeatedCards("rare"), Num(0))
  /\ Gt(getRarityRepeatedCards("mythic"), Num(0))
  /\ Gt(getRarityValue("rare"), Num(0))
  /\ Gt(collectionValueEur, getRarityValue("rare"))
  /\ getRarityTotalCards("common") = 0

\* a card outside the four tiers is owned: the tiers sum to less than the
\* overall figures
C19_WitnessOtherTier ==
  /\ cards = <<CardE>>
  /\ ownedCards = 1
  /\ SumOverTiers(LAMBDA r : Num(getRarityOwnedCards(r))) = Num(0)

(***************************************************************************)
(* sortCards called on its own                                             *)
(***************************************************************************)
MaxSorted == 4     \* longest card list given to sortCards

SortPool == CardPool \cup {CardE}

\* lists of different cards
SortLists ==
  {l \in SeqsUpTo(SortPool, MaxSorted) :
     \A i, j \in 1..Len(l) : l[i] = l[j] => i = j}

SortArgs == {[sortBy |-> key, cards |-> l] : key \in SortKeys, l \in SortLists}

SortInit ==
  /\ StoreInit
  /\ ViewInit
  /\ args \in {Some(a) : a \in SortArgs}
  /\ result = Null
  /\ NoFetch
  /\ LanguageConstructed(Null)

SortCards ==
  /\ args # Null
  /\ result = Null
  /\ result' = Some(sortCards(args[1].sortBy, args[1].cards))
  /\ UNCHANGED <<storeVars, viewVars, args, netVars, langVars>>

SortNext == SortCards

SortSpec == SortInit /\ [][SortNext]_vars

\* the place of the collector numbers of the pool in the numeric-aware order:
\* "1a" < "2" < "9" < "10" < "10a"
NumericRank(collectorNumber) ==
  CASE collectorNumber = <<"1", "a">> -> 1
    [] collectorNumber = <<"2">> -> 2
    [] collectorNumber = <<"9">> -> 3
    [] collectorNumber = <<"1", "0">> -> 4
    [] collectorNumber = <<"1", "0", "a">> -> 5

\* the cards of a list
CardsOf(list) == {list[i] : i \in 1..Len(list)}

\* the list from its last card to its first
Reversed(list) == [i \in 1..Len(list) |-> list[Len(list) + 1 - i]]

\* C20: the collector-number sort is numeric-aware: the leading integer is
\* compared as a number and then the suffix, so "9" < "10" < "10a", and
\* ["2", "10", "1a", "10a"] sorted ascending is ["1a", "2", "10", "10a"]; the
\* descending key uses the reversed comparator.
C20_NumericAwareSort ==
  result # Null =>
    LET input == args[1].cards
        output == result[1]
    IN  /\ args[1].sortBy \in {"collectorNumber", "collectorNumberDesc"}
             => Len(output) = Len(input) /\ CardsOf(output) = CardsOf(input)
        /\ args[1].sortBy = "collectorNumber"
             => /\ \A i \in 1..Len(output) - 1 :
                     NumericRank(output[i].collectorNumber)
                       < NumericRank(output[i + 1].collectorNumber)
                /\ input = <<CardA, CardB, CardC, CardD>>
                     => output = <<CardC, CardA, CardB, CardD>>
                /\ CardsOf(input) = {CardE, CardB, CardD}
                     => output = <<CardE, CardB, CardD>>
        /\ args[1].sortBy = "collectorNumberDesc"
             => /\ output = Reversed(sortCards("collectorNumber", input))
                /\ \A i \in 1..Len(output) - 1 :
                     NumericRank(output[i].collectorNumber)
                       > NumericRank(output[i + 1].collectorNumber)
        /\ \A a, b \in SortPool :
             CompareCards("collectorNumberDesc", a, b)
               = CompareCards("collectorNumber", b, a)

\* the scenario: ["2", "10", "1a", "10a"] has been sorted ascending
C20_Witness ==
  /\ args # Null /\ result # Null
  /\ args[1].sortBy = "collectorNumber"
  /\ args[1].cards = <<CardA, CardB, CardC, CardD>>
  /\ result[1] = <<CardC, CardA, CardB, CardD>>

\* priceNonFoil of a card in cents, an absent price counting as 0
EffectivePrice(card) == Cents(card.eurPriceNonFoil)

\* the place of a card in a list of different cards
PlaceIn(list, card) == CHOOSE i \in 1..Len(list) : list[i] = card

\* cards with equal effective price are in the output in their input order
TiesKeepInputOrder(input, output) ==
  \A i, j \in 1..Len(input) :
    (i < j /\ EffectivePrice(input[i]) = EffectivePrice(input[j]))
      => PlaceIn(output, input[i]) < PlaceIn(output, input[j])

\* C21: for priceAsc (priceDesc) the result is a permutation of the input in
\* non-decreasing (non-increasing) order of priceNonFoil, an absent price
\* counting as 0, and cards with equal effective price keep their relative
\* input order under both keys.
C21_PriceSortStable ==
  (result # Null /\ args[1].sortBy \in {"priceAsc", "priceDesc"}) =>
    LET input == args[1].cards
        output == result[1]
    IN  /\ Len(output) = Len(input)
        /\ CardsOf(output) = CardsOf(input)
        /\ args[1].sortBy = "priceAsc"
             => \A i \in 1..Len(output) - 1 :
                  EffectivePrice(output[i]) <= EffectivePrice(output[i + 1])
        /\ args[1].sortBy = "priceDesc"
             => \A i \in 1..Len(output) - 1 :
                  EffectivePrice(output[i]) >= EffectivePrice(output[i + 1])
        /\ TiesKeepInputOrder(input, output)

\* a descending price sort moved the unpriced card last and kept the two cards
\* priced 2.00 in their input order, the one listed first still first
C21_Witness ==
  /\ args # Null /\ result # Null
  /\ args[1].sortBy = "priceDesc"
  /\ args[1].cards = <<CardD, CardE, CardA, CardB>>
  /\ result[1] = <<CardE, CardB, CardA, CardD>>

(***************************************************************************)
(* ScryfallService: the catalog is fetched page by page                    *)
(***************************************************************************)
\* what localStorage may hold under 'mtg-setType' when the component is built
SavedSetTypes == {Null, Some("complete")}

FetchInit ==
  /\ StoreInit /\ ViewInit /\ NoCall /\ LanguageConstructed(Null)
  /\ \E saved \in SavedSetTypes : ComponentConstructed(saved)

FetchNext ==
  \/ NgOnInit(FetchProviders)
  \/ OnSetTypeChange(FetchProviders)
  \/ PageArrives
  \/ PageFails

\* every request is answered or fails
FetchSpec == FetchInit /\ [][FetchNext]_vars /\ WF_vars(PageFails \/ PageArrives)

\* the cards of all pages of a provider, in page order
RECURSIVE AllPages(_)
AllPages(pages) ==
  IF pages = <<>> THEN <<>>
  ELSE AllPages(SubSeq(pages, 1, Len(pages) - 1)) \o pages[Len(pages)].data

\* the fetch of load k has delivered a card list, or an error
Delivered(k) == emitted[k] # <<>> /\ emitted[k][1].kind = "next"
Failed(k) == emitted[k] # <<>> /\ emitted[k][1].kind = "error"

C22_Safety ==
  \A k \in 1..loads :
    /\ Len(requested[k]) <= Len(provider[k])
    /\ \A i \in 1..Len(requested[k]) : requested[k][i] = i
    /\ pending[k] # Null
         => /\ pending[k][1].url = Len(requested[k])
            /\ emitted[k] = <<>>
    /\ Len(emitted[k]) <= 1
    /\ Delivered(k)
         => /\ requested[k] = [i \in 1..Len(provider[k]) |-> i]
            /\ pending[k] = Null
            /\ emitted[k] = <<NextValue(AllPages(provider[k]))>>
    /\ pending[k] = Null => emitted[k] # <<>>

\* a step in which the fetch of a load delivers its card list
C22_DeliveringStep ==
  \A k \in 1..loads :
    (emitted[k] = <<>> /\ emitted'[k] # <<>> /\ emitted'[k][1].kind = "next")
      => /\ pending[k] # Null
         /\ pending[k][1].url = Len(provider[k])
         /\ cards' = sortCardsByCollectorNumber(MapCards(AllPages(provider[k])))
         /\ ~loading'

\* C22: for a provider with N pages the fetch issues the N page requests one
\* after another, following each next-page cursor, stops at the page that
\* reports no further page, and then delivers exactly one result, the
\* concatenation of all pages in page order; nothing is delivered before the
\* last page has arrived.  A fetch that has started ends.
C22_PaginatedFetch ==
  /\ []C22_Safety
  /\ [][C22_DeliveringStep]_vars
  /\ \A k \in 1..MaxLoads :
       (loads >= k /\ pending[k] # Null) ~> (loads >= k /\ pending[k] = Null)

\* a provider of three pages, the middle one empty, has been fetched whole
C22_Witness ==
  \E k \in 1..loads :
    /\ Len(provider[k]) = 3
    /\ provider[k][2].data = <<>>
    /\ requested[k] = <<1, 2, 3>>
    /\ emitted[k] = <<NextValue(<<ScryD, ScryA, ScryC, ScryB>>)>>
    /\ cards = <<CardC, CardA, CardB, CardD>>
    /\ ~loading /\ errorKey = Null

\* the state of a fetch that failed, and of the component's error
C23_AfterFailure ==
  /\ \A k \in 1..loads :
       Failed(k) => /\ emitted[k] = <<ErrorValue>>
                    /\ pending[k] = Null
                    /\ Len(requested[k]) <= Len(provider[k])
  /\ errorKey # Null
       => /\ errorKey = Some("loadingError")
          /\ \E k \in 1..loads : Failed(k)

\* a step in which a page request of load k fails
C23_FailingStep ==
  \A k \in 1..loads :
    (emitted[k] = <<>> /\ emitted'[k] # <<>> /\ emitted'[k][1].kind = "error")
      => /\ pending[k] # Null
         /\ emitted'[k] = <<ErrorValue>>
         /\ requested' = requested
         /\ pending'[k] = Null
         /\ ~loading'
         /\ errorKey' = Some("loadingError")
         /\ cards' = cards

\* a fetch that failed issues no request and delivers nothing afterwards
C23_NoRetry ==
  \A k \in 1..loads :
    Failed(k) => /\ requested'[k] = requested[k]
                 /\ emitted'[k] = emitted[k]
                 /\ pending'[k] = Null

\* C23: if a page request of a fetch fails, the fetch delivers a single error
\* and no cards, no further request or retry is issued, the error state is set
\* and loading is cleared, and the catalog list displayed before is unchanged.
C23_CatalogLoadFailure ==
  /\ []C23_AfterFailure
  /\ [][C23_FailingStep /\ C23_NoRetry]_vars

\* a first load displayed cards; the second page of a reload failed
C23_Witness ==
  /\ loads = 2
  /\ errorKey = Some("loadingError")
  /\ Len(provider[2]) = 3
  /\ requested[2] = <<1, 2>>
  /\ emitted[2] = <<ErrorValue>>
  /\ Len(cards) = 4

\* the term without the spaces at its ends
TrimmedTerm(term) ==
  LET inked == {i \in 1..Len(term) : term[i] # " "}
  IN  IF inked = {} THEN <<>>
      ELSE SubSeq(term, CHOOSE i \in inked : \A j \in inked : i <= j,
                        CHOOSE i \in inked : \A j \in inked : i >= j)

\* the name contains the part at some place, capitals and small letters alike
NameContains(name, part) ==
  \E start \in 1..(Len(name) + 1) :
    /\ start + Len(part) - 1 <= Len(name)
    /\ \A k \in 1..Len(part) : LowerChar(name[start + k - 1]) = LowerChar(part[k])

\* C24: a card passes the search stage exactly when its name, compared
\* case-insensitively, contains the trimmed search term as a substring; an
\* empty or whitespace-only term passes every card.
C24_SearchStage ==
  result # Null =>
    LET list == args[1].cards
        term == args[1].criteria.searchTerm
        shown == filterBySearchTerm(list, term)
    IN  /\ shown = SelectSeq(list, LAMBDA card :
                               NameContains(card.name, TrimmedTerm(term)))
        /\ (\A i \in 1..Len(term) : term[i] = " ") => shown = list
        /\ ( /\ args[1].criteria.rarity = "all"
             /\ args[1].criteria.ownership = "all"
             /\ args[1].criteria.print = "all" ) => result[1] = shown

\* the term "ab " kept the card named "Ab" and dropped the card named "a B"
C24_Witness ==
  /\ args # Null /\ result # Null
  /\ args[1].criteria = FilterCriteria(<<"a", "b", " ">>, "all", "all", "all")
  /\ args[1].cards = <<CardC, CardA>>
  /\ result[1] = <<CardA>>

\* C25: a card whose collector number contains the search term is in the
\* filtered list even when its name does not contain the term.
C25_SearchByCollectorNumber ==
  ( /\ result # Null
    /\ args[1].criteria.rarity = "all"
    /\ args[1].criteria.ownership = "all"
    /\ args[1].criteria.print = "all" )
    => \A i \in 1..Len(args[1].cards) :
         NameContains(args[1].cards[i].collectorNumber,
                      TrimmedTerm(args[1].criteria.searchTerm))
           => \E j \in 1..Len(result[1]) : result[1][j] = args[1].cards[i]

(***************************************************************************)
(* The read paths of AppComponent: the template evaluates filteredCards    *)
(* and the statistics                                                      *)
(***************************************************************************)
\* a ledger kept by an earlier session
StoredLedger ==
  <<[cardId |-> Str("c"), normalQty |-> Num(1), foilQty |-> Num(1),
     wanted |-> Bool(TRUE)]>>

ReadInit ==
  /\ cache = Null
  /\ storage \in {Null, Some(JSONstringify(StoredLedger))}
  /\ importErrorKey = Null
  /\ importsPending = 0
  /\ writeFailures = 0
  /\ call = Call("init", "init")
  /\ ViewInit
  /\ NoCall
  /\ NoFetch
  /\ LanguageConstructed(Null)

(***************************************************************************)
(* The getters as the program runs them.  A memory is the arrays that      *)
(* exist (heap; an array is known by its place in it, and this.cards is    *)
(* the first) together with the two fields of the store.  A method run on  *)
(* a memory yields what it returns and the memory it leaves: an array      *)
(* method that builds an array adds one to the heap, Array.sort rewrites   *)
(* the array it is called on, and loadFromStorage assigns the cache.       *)
(***************************************************************************)
Returned(value, m) == [value |-> value, memory |-> m]

\* one call after another: the second is given what the first returned and
\* the memory it left
Then(first, Second(_)) == CHOOSE r \in {Second(x) : x \in {first}} : TRUE

\* the memory when the getters are evaluated
Now == [heap |-> <<cards>>, cache |-> cache, storage |-> storage]

\* the array this.cards refers to
thisCards(m) == m.heap[1]

\* an array that did not exist before: its reference
Allocate(m, array) ==
  Returned(Len(m.heap) + 1, [m EXCEPT !.heap = Append(@, array)])

\* the memory a call of loadFromStorage leaves
Loaded(m) ==
  [m EXCEPT !.cache = afterLoad(m).cache, !.storage = afterLoad(m).storage]

\* a lookup of the store (getNormalQty, getFoilQty, isWanted): each goes
\* through getCard and loadFromStorage
Asked(m, value) == Returned(value, Loaded(m))

\* a callback run for each element of a list in turn (filter, forEach,
\* reduce): what it returned for each, and the memory after the last
Visit(m, list, Callback(_, _)) ==
  LET after[i \in 0..Len(list)] ==
        IF i = 0 THEN Returned(<<>>, m)
        ELSE Then(after[i - 1], LAMBDA before :
             Then(Callback(before.memory, list[i]), LAMBDA this :
             Returned(Append(before.value, this.value), this.memory)))
  IN  after[Len(list)]

\* getNormalQty(card.id) > 0 || getFoilQty(card.id) > 0
isCardOwnedIn(m, card) ==
  Then(Asked(m, getNormalQty(m, Str(card.id))), LAMBDA normal :
  IF Gt(normal.value, Num(0)) THEN Returned(TRUE, normal.memory)
  ELSE Then(Asked(normal.memory, getFoilQty(normal.memory, Str(card.id))),
            LAMBDA foil : Returned(Gt(foil.value, Num(0)), foil.memory)))

isCardFoilOwnedIn(m, card) ==
  Then(Asked(m, getFoilQty(m, Str(card.id))), LAMBDA foil :
  Returned(Gt(foil.value, Num(0)), foil.memory))

\* list.find((c) => c.id === cardId)
Find(list, cardId) ==
  list[CHOOSE i \in 1..Len(list) :
         /\ list[i].id = cardId
         /\ \A j \in 1..(i - 1) : list[j].id # cardId]

\* the function filteredCards hands to filterCards, called with card.id
getOwnershipInfoIn(m, card) ==
  Then(isCardOwnedIn(m, Find(thisCards(m), card.id)), LAMBDA owned :
  Then(isCardFoilOwnedIn(owned.memory, Find(thisCards(owned.memory), card.id)),
       LAMBDA foilOwned :
  Then(Asked(foilOwned.memory, isWanted(foilOwned.memory, Str(card.id))),
       LAMBDA wanted :
  Returned(OwnershipInfo(owned.value, foilOwned.value, wanted.value),
           wanted.memory))))

\* the stages of filterCards: each returns the array it was given, itself,
\* or the array that cards.filter builds; filterByOwnership asks
\* getOwnershipInfo for each card in turn and keeps the cards its test accepts
filterBySearchTermIn(m, ref, term) ==
  IF ToLowerCase(Trim(term)) = <<>> THEN Returned(ref, m)
  ELSE Allocate(m, filterBySearchTerm(m.heap[ref], term))

filterByRarityIn(m, ref, rarity) ==
  IF rarity = "all" THEN Returned(ref, m)
  ELSE Allocate(m, filterByRarity(m.heap[ref], rarity))

filterByOwnershipIn(m, ref, ownership) ==
  IF ownership = "all" THEN Returned(ref, m)
  ELSE Then(Visit(m, m.heap[ref], getOwnershipInfoIn), LAMBDA infos :
       LET list == m.heap[ref]
           kept == SelectSeq([i \in 1..Len(list) |-> i],
                             LAMBDA i :
                               filterByOwnership(
                                 <<list[i]>>, ownership,
                                 [id \in {list[i].id} |-> infos.value[i]]) # <<>>)
       IN  Allocate(infos.memory, [j \in 1..Len(kept) |-> list[kept[j]]]))

filterByPrintIn(m, ref, print) ==
  IF print \in {"hasFoil", "hasNonFoil"}
  THEN Allocate(m, filterByPrint(m.heap[ref], print))
  ELSE Returned(ref, m)

filterCardsIn(m, ref, criteria) ==
  Then(filterBySearchTermIn(m, ref, criteria.searchTerm), LAMBDA bySearchTerm :
  Then(filterByRarityIn(bySearchTerm.memory, bySearchTerm.value, criteria.rarity),
       LAMBDA byRarity :
  Then(filterByOwnershipIn(byRarity.memory, byRarity.value, criteria.ownership),
       LAMBDA byOwnership :
  filterByPrintIn(byOwnership.memory, byOwnership.value, criteria.print))))

\* array.sort(compare): the array is sorted where it is, and returned
ArraySortIn(m, ref, key) ==
  Returned(ref, [m EXCEPT !.heap[ref] = ArraySort(key, @)])

\* sortCards that sorts the array it is given
sortCardsIn_NoCopy(m, ref, key) ==
  IF key \in SortKeys THEN ArraySortIn(m, ref, key) ELSE Returned(ref, m)

\* sortCards(cards): const sorted = [...cards], then sorted.sort(...)
sortCardsIn(m, ref, key) ==
  Then(Allocate(m, m.heap[ref]), LAMBDA sorted :
  IF key \in SortKeys THEN ArraySortIn(sorted.memory, sorted.value, key)
  ELSE sorted)

\* get filteredCards(): the reference of the array it returns
filteredCardsIn(m) ==
  Then(filterCardsIn(m, 1, FilterCriteria(searchTerm, filterRarity,
                                          filterOwnership, "all")),
       LAMBDA filtered :
  sortCardsIn(filtered.memory, filtered.value, sortBy))

\* list.filter((card) => this.isCardOwned(card)).length
CountOwnedIn(m, list) ==
  Then(Visit(m, list, isCardOwnedIn), LAMBDA owned :
  Returned(Len(SelectSeq(owned.value, LAMBDA flag : flag)), owned.memory))

\* the copies of a card beyond the first, from getNormalQty and getFoilQty
ExtraCopiesIn(m, card) ==
  Then(Asked(m, getNormalQty(m, Str(card.id))), LAMBDA normal :
  Then(Asked(normal.memory, getFoilQty(normal.memory, Str(card.id))),
       LAMBDA foil :
  LET totalCopies == Plus(normal.value, foil.value)
  IN  Returned(IF Gt(totalCopies, Num(1)) THEN Minus(totalCopies, Num(1))
               ELSE Num(0),
               foil.memory)))

\* normalValue + foilValue of a card, in cents
OwnedValueIn(m, card) ==
  Then(Asked(m, getNormalQty(m, Str(card.id))), LAMBDA normal :
  Then(Asked(normal.memory, getFoilQty(normal.memory, Str(card.id))),
       LAMBDA foil :
  Returned(Plus(Times(normal.value, PriceOrZero(card.eurPriceNonFoil)),
                Times(foil.value, PriceOrZero(card.eurPriceFoil))),
           foil.memory)))

\* a forEach or reduce that adds up what the callback yields for each card
SumIn(m, list, Callback(_, _)) ==
  Then(Visit(m, list, Callback), LAMBDA each :
  Returned(SumSeq(each.value), each.memory))

totalCardsIn(m) == Returned(Len(thisCards(m)), m)

ownedCardsIn(m) == CountOwnedIn(m, thisCards(m))

repeatedCardsIn(m) == SumIn(m, thisCards(m), ExtraCopiesIn)

completionPercentageIn(m) ==
  IF totalCardsIn(m).value = 0 THEN Returned(Percentage(0, 1), m)
  ELSE Then(ownedCardsIn(m), LAMBDA owned :
       Returned(Percentage(owned.value, totalCardsIn(owned.memory).value),
                owned.memory))

collectionValueEurIn(m) == SumIn(m, thisCards(m), OwnedValueIn)

\* this.cards.filter((card) => card.rarity === rarity)
OfRarityIn(m, rarity) ==
  SelectSeq(thisCards(m), LAMBDA card : card.rarity = rarity)

getRarityTotalCardsIn(m, rarity) == Returned(Len(OfRarityIn(m, rarity)), m)

getRarityOwnedCardsIn(m, rarity) == CountOwnedIn(m, OfRarityIn(m, rarity))

getRarityRepeatedCardsIn(m, rarity) ==
  SumIn(m, OfRarityIn(m, rarity), ExtraCopiesIn)

getRarityValueIn(m, rarity) == SumIn(m, OfRarityIn(m, rarity), OwnedValueIn)

filteredTotalCardsIn(m) ==
  Then(filteredCardsIn(m), LAMBDA filtered :
  Returned(Len(filtered.memory.heap[filtered.value]), filtered.memory))

filteredOwnedCardsIn(m) ==
  Then(filteredCardsIn(m), LAMBDA filtered :
  CountOwnedIn(filtered.memory, filtered.memory.heap[filtered.value]))

filteredCompletionPercentageIn(m) ==
  Then(filteredTotalCardsIn(m), LAMBDA total :
  IF total.value = 0 THEN Returned(Percentage(0, 1), total.memory)
  ELSE Then(filteredOwnedCardsIn(total.memory), LAMBDA owned :
       Then(filteredTotalCardsIn(owned.memory), LAMBDA again :
       Returned(Percentage(owned.value, again.value), again.memory))))

filteredCollectionValueEurIn(m) ==
  Then(filteredCardsIn(m), LAMBDA filtered :
  LET list == filtered.memory.heap[filtered.value]
  IN  IF shouldShowTotalFilterStats
      THEN Returned(SumSeq([i \in 1..Len(list) |-> MarketValue(list[i])]),
                    filtered.memory)
      ELSE SumIn(filtered.memory, list, OwnedValueIn))

\* a getter of the component, or a statistic of a rarity
Getter(name, rarity) == [name |-> name, rarity |-> rarity]

\* the getters in the order they are evaluated
Getters ==
  <<Getter("filteredCards", "")>>
  \o [i \in 1..5 |->
        Getter(<<"totalCards", "ownedCards", "repeatedCards",
                 "completionPercentage", "collectionValueEur">>[i], "")]
  \o [i \in 1..16 |->
        Getter(<<"getRarityTotalCards", "getRarityOwnedCards",
                 "getRarityRepeatedCards", "getRarityValue">>[((i - 1) % 4) + 1],
               <<"common", "uncommon", "rare", "mythic">>[((i - 1) \div 4) + 1])]
  \o [i \in 1..4 |->
        Getter(<<"filteredTotalCards", "filteredOwnedCards",
                 "filteredCompletionPercentage",
                 "filteredCollectionValueEur">>[i], "")]

\* one getter evaluated: what it returns (for filteredCards, the elements of
\* the array returned) and the memory it leaves
GetterIn(m, getter) ==
  CASE getter.name = "filteredCards" ->
         Then(filteredCardsIn(m), LAMBDA list :
         Returned(list.memory.heap[list.value], list.memory))
    [] getter.name = "totalCards" -> totalCardsIn(m)
    [] getter.name = "ownedCards" -> ownedCardsIn(m)
    [] getter.name = "repeatedCards" -> repeatedCardsIn(m)
    [] getter.name = "completionPercentage" -> completionPercentageIn(m)
    [] getter.name = "collectionValueEur" -> collectionValueEurIn(m)
    [] getter.name = "getRarityTotalCards" ->
         getRarityTotalCardsIn(m, getter.rarity)
    [] getter.name = "getRarityOwnedCards" ->
         getRarityOwnedCardsIn(m, getter.rarity)
    [] getter.name = "getRarityRepeatedCards" ->
         getRarityRepeatedCardsIn(m, getter.rarity)
    [] getter.name = "getRarityValue" -> getRarityValueIn(m, getter.rarity)
    [] getter.name = "filteredTotalCards" -> filteredTotalCardsIn(m)
    [] getter.name = "filteredOwnedCards" -> filteredOwnedCardsIn(m)
    [] getter.name = "filteredCompletionPercentage" ->
         filteredCompletionPercentageIn(m)
    [] getter.name = "filteredCollectionValueEur" ->
         filteredCollectionValueEurIn(m)

\* the getters of the component evaluated one after the other: what each
\* returned, in the order of Getters, and the memory after the last
ReadingsIn(m) == Visit(m, Getters, GetterIn)

\* what an evaluation of the getters leaves alone: they assign no field of
\* the component and call no mutating method of the store
ReadFrame ==
  UNCHANGED <<importErrorKey, importsPending, writeFailures, call, searchTerm,
              filterRarity, filterOwnership,
              sortBy, loading, errorKey, netVars, langVars>>

\* the getters are evaluated: the card list is what this.cards refers to
\* afterwards, the store is the one the lookups left
Evaluate ==
  /\ result = Null
  /\ \E evaluated \in {ReadingsIn(Now)} :
       /\ result' = Some(evaluated.value)
       /\ cards' = thisCards(evaluated.memory)
       /\ cache' = evaluated.memory.cache
       /\ storage' = evaluated.memory.storage
  /\ args' = args
  /\ ReadFrame

\* the getters are evaluated once more
EvaluateAgain ==
  /\ result # Null
  /\ args = Null
  /\ \E evaluated \in {ReadingsIn(Now)} :
       /\ args' = Some(evaluated.value)
       /\ cards' = thisCards(evaluated.memory)
       /\ cache' = evaluated.memory.cache
       /\ storage' = evaluated.memory.storage
  /\ result' = result
  /\ ReadFrame

\* the values typed and the settings chosen before the getters are evaluated
ReadValues == {Num(0), Num(2), Half(1)}

ReadSettings ==
  {FilterSetting(<<>>, "all", "all", "collectorNumber"),
   FilterSetting(<<>>, "all", "all", "priceDesc"),
   FilterSetting(<<"B">>, "all", "owned", "nameAsc"),
   FilterSetting(<<>>, "mythic", "wanted", "collectorNumberDesc")}

ReadNext ==
  \/ result = Null /\ NgOnInit(AppProviders)
  \/ result = Null /\ PageArrives
  \/ result = Null /\ PageFails
  \/ result = Null /\ NormalQtyChanged(ReadValues)
  \/ result = Null /\ FoilQtyChanged(ReadValues)
  \/ result = Null /\ AppToggleWanted
  \/ result = Null /\ FiltersChanged(ReadSettings)
  \/ Evaluate
  \/ EvaluateAgain
  \/ ExportCollection

ReadSpec == ReadInit /\ [][ReadNext]_vars

\* a step that evaluates the getters leaves the card list, the ledger the
\* store reports, the stored ledger and the criteria as they were; the card
\* list and the store after the step are those of the memory the getters left
C26_ReadingKeepsState ==
  (result' # result \/ args' # args)
    => /\ cards' = cards
       /\ getAll(Cur)' = getAll(Cur)
       /\ storage' = storage
       /\ <<searchTerm, filterRarity, filterOwnership, sortBy>>'
            = <<searchTerm, filterRarity, filterOwnership, sortBy>>

\* C26: evaluating filteredCards or a statistic leaves the catalog list
\* (contents and order) and the ledger (in memory and persisted) unchanged,
\* and two evaluations with the same catalog, ledger and criteria return the
\* same result.
C26_ReadPathsPure ==
  /\ [][C26_ReadingKeepsState]_vars
  /\ [](args # Null => args = result)

\* the getters were evaluated twice with no filter active, so that every
\* stage of filterCards handed this.cards itself on to sortCards, over a list
\* shown in descending price order, with a ledger that the first evaluation
\* loaded from the storage
C26_Witness ==
  /\ args # Null /\ result # Null
  /\ filterCardsIn(Now, 1, FilterCriteria(searchTerm, filterRarity,
                                          filterOwnership, "all")).value = 1
  /\ sortBy = "priceDesc"
  /\ Len(cards) = 2
  /\ Getters[1].name = "filteredCards" /\ Getters[3].name = "ownedCards"
  /\ result[1][1] # cards
  /\ Len(result[1][1]) = 2
  /\ result[1][3] = 1
  /\ cache = Some(StoredLedger)

\* the records of a ledger whose cardId is not id, in the ledger's order
OtherSeq(ledger, id) == SelectSeq(ledger, LAMBDA record : record.cardId # id)

\* the ledger in the storage a call leaves
PersistedOf(st) == IF st.storage = Null THEN <<>> ELSE JSONparse(st.storage[1])

\* C27: setCardQuantities(id, ...) and toggleWanted(id) leave every record
\* whose cardId differs from id unchanged: same quantities, same wanted flag,
\* still present.
C27_PerCardIsolation ==
  /\ \A in \in SetInputs :
       LET r == setCardQuantities(Cur, in[1], in[2], in[3])
       IN  /\ OtherSeq(getAll(r), in[1]) = OtherSeq(getAll(Cur), in[1])
           /\ OtherSeq(PersistedOf(r), in[1]) = OtherSeq(Persisted, in[1])
  /\ \A id \in CardIds :
       LET r == toggleWanted(Cur, id)
       IN  /\ OtherSeq(getAll(r), id) = OtherSeq(getAll(Cur), id)
           /\ OtherSeq(PersistedOf(r), id) = OtherSeq(Persisted, id)

\* a ledger with records of both card ids, the record of one of them just
\* changed by setCardQuantities
C27_Witness ==
  /\ call = Call("setCardQuantities", "updated")
  /\ OtherSeq(InMemory, Str("a")) # <<>>
  /\ OtherSeq(InMemory, Str("")) # <<>>
  /\ \E i \in 1..Len(InMemory) : Gt(InMemory[i].normalQty, Num(0))


\* ---------------------------------------------------------------------------
\* A storage write that throws (localStorage.setItem raising, as it does when
\* the quota is exceeded)

\* a call reaches saveToStorage unless it returned or threw before it
ReachesWrite(r) == r.outcome \notin {"noop", "threw"}

\* the store after a call whose localStorage.setItem threw: saveToStorage has
\* already assigned this.cache = data (the array the call changed in place),
\* the stored text is the one from before the call, the exception leaves the
\* method
setItemThrows(st, r) ==
  [cache |-> r.cache, storage |-> st.storage, outcome |-> "writeFailed"]

\* most storage writes that throw
MaxWriteFailures == 1

\* the fields a failing call of the store leaves alone
WriteFailFrame ==
  /\ writeFailures < MaxWriteFailures
  /\ writeFailures' = writeFailures + 1
  /\ UNCHANGED <<viewVars, callVars, netVars, langVars>>

SetCardQuantitiesWriteFails ==
  /\ \E in \in SetInputs :
       LET r == setCardQuantities(Cur, in[1], in[2], in[3])
           t == setItemThrows(Cur, r)
       IN  /\ ReachesWrite(r)
           /\ cache' = t.cache
           /\ storage' = t.storage
           /\ call' = Call("setCardQuantities", t.outcome)
  /\ UNCHANGED <<importErrorKey, importsPending>>
  /\ WriteFailFrame

ToggleWantedWriteFails ==
  /\ \E id \in CardIds :
       LET r == toggleWanted(Cur, id)
           t == setItemThrows(Cur, r)
       IN  /\ ReachesWrite(r)
           /\ cache' = t.cache
           /\ storage' = t.storage
           /\ call' = Call("toggleWanted", t.outcome)
  /\ UNCHANGED <<importErrorKey, importsPending>>
  /\ WriteFailFrame

\* the rest of onImportFileSelected when replaceAll's write throws: the
\* exception is caught by the handler, which reports 'importError'
ImportFileReadWriteFails ==
  /\ importsPending > 0
  /\ importsPending' = importsPending - 1
  /\ \E data \in ImportData :
       LET r == replaceAll(Cur, data)
           t == setItemThrows(Cur, r)
       IN  /\ ReachesWrite(r)
           /\ cache' = t.cache
           /\ storage' = t.storage
           /\ call' = Call("onImportFileSelected", t.outcome)
           /\ importErrorKey' = Some("importError")
  /\ WriteFailFrame

WriteFailNext ==
  \/ SetCardQuantities
  \/ ToggleWanted
  \/ OnImportFileSelected
  \/ ImportFileRead
  \/ ExportCollection
  \/ SetCardQuantitiesWriteFails
  \/ ToggleWantedWriteFails
  \/ ImportFileReadWriteFails

WriteFailSpec == Init /\ [][WriteFailNext]_vars

WriteFailed == call.outcome = "writeFailed"

\* C28: when the storage write throws during setCardQuantities, toggleWanted
\* or replaceAll, the ledger in memory is the one from before the call, and
\* the ledger in memory and the stored ledger agree afterwards.
C28_FailedWriteKeepsMemory ==
  /\ [][writeFailures' > writeFailures => getAll(Cur)' = getAll(Cur)]_vars
  /\ [](WriteFailed => InMemory = Persisted)

\* a failed write after which memory holds a ledger that storage does not
C28_Diverged ==
  /\ WriteFailed
  /\ InMemory # Persisted


\* ---------------------------------------------------------------------------
\* Loading dictionaries: every loadLanguage call subscribes to a request of
\* its own, and the responses of requests in flight arrive in any order

\* what localStorage may hold under 'mtg_ff_lang' when the service is built
SavedLanguages == {Null, Some("es"), Some("en"), Some("fr")}

LangInit ==
  /\ StoreInit /\ ViewInit /\ NoCall /\ NoFetch
  /\ \E saved \in SavedLanguages : LanguageConstructed(saved)

LangFrame == UNCHANGED <<storeVars, viewVars, callVars, netVars>>

\* loadLanguage(lang), as changeLanguage calls it: the request is sent
LoadLanguage ==
  /\ Len(langRequests) < MaxRequests
  /\ \E lang \in Languages : langRequests' = Append(langRequests, Request(lang))
  /\ UNCHANGED <<currentLanguage, translations, langStorage>>
  /\ LangFrame

\* the next handler of one request in flight
DictionaryArrives ==
  /\ \E i \in 1..Len(langRequests) :
       /\ langRequests[i].status = "pending"
       /\ translations' = Dictionary(langRequests[i].lang)
       /\ currentLanguage' = langRequests[i].lang
       /\ langStorage' = Some(langRequests[i].lang)
       /\ langRequests' = [langRequests EXCEPT ![i].status = "loaded"]
  /\ LangFrame

\* the error handler of one request in flight
DictionaryFails ==
  /\ \E i \in 1..Len(langRequests) :
       /\ langRequests[i].status = "pending"
       /\ translations' = {}
       /\ langRequests' = [langRequests EXCEPT ![i].status = "failed"]
  /\ UNCHANGED <<currentLanguage, langStorage>>
  /\ LangFrame

LangNext ==
  \/ LoadLanguage
  \/ DictionaryArrives
  \/ DictionaryFails

LangSpec == LangInit /\ [][LangNext]_vars

AllLoaded == \A i \in 1..Len(langRequests) : langRequests[i].status = "loaded"
LastRequested == langRequests[Len(langRequests)].lang

\* C29: once the responses of all dictionary requests have been handled, all
\* of them loads that succeeded, the current language, the dictionary in use
\* and the stored preference are those of the language requested last,
\* whatever the order in which the responses arrived.
C29_LastRequestWins ==
  AllLoaded =>
    /\ currentLanguage = LastRequested
    /\ translations = Dictionary(LastRequested)
    /\ langStorage = Some(LastRequested)

\* every load succeeded and the language in use is not the one requested last
C29_StaleLanguage ==
  /\ AllLoaded
  /\ currentLanguage # LastRequested
  /\ translate(translations, "appTitle") # translate(Dictionary(LastRequested), "appTitle")

====
